---- MODULE Spec2Model ----
(***************************************************************************)
(* A model of the NPS signal finder: the rule-based query parser           *)
(* (src/query_parser.py) and the analyzers (src/analyzers/*.py).           *)
(*                                                                         *)
(* Conventions                                                             *)
(*   - Python's None is the empty sequence None, a present value v of an   *)
(*     optional field is Some(v) = <<v>>.                                  *)
(*   - An NPS value is carried in hundredths of a point (33.33 -> 3333),   *)
(*     the resolution _calculate_nps rounds to; it stands for the double   *)
(*     nearest to that decimal.  The arithmetic on such values (division,  *)
(*     rounding, differences, means, formatting) is float64 arithmetic,    *)
(*     computed bit for bit on 53-bit significands, for counts below 2^15. *)
(*   - A question is a sequence of pieces of text; the question text is    *)
(*     the concatenation of the pieces, character by character.            *)
(*   - A calendar date is a record [y, m, d]; the source formats it as     *)
(*     'YYYY-MM-DD' with {:02d} (which pads, never truncates).             *)
(***************************************************************************)
EXTENDS Integers, Sequences, FiniteSets, TLC

VARIABLES
    scores,      \* NPS metric: the sequence of scores handed to _calculate_nps
    nps_out,     \* NPS metric: what each analyzer's _calculate_nps returned
    question,    \* parser: the question text typed so far (pieces)
    returned,    \* parser: the value the last call of parse produced
    extracted,   \* parser: the analysis month handed to the last direct call
                 \*         of _extract_comparison_periods, and what it produced
    df,          \* analyzers: the rows of the dataset handed to the analyzer
    pc_out,      \* period comparison: the filters of the last analyze and
                 \*         what it returned
    sg_out,      \* senior gap: the filters of the last analyze and what it
                 \*         returned
    sg_before,   \* senior gap: the same for the run before the last one
    sf_out,      \* simple filter: the filters of the last analyze and what it
                 \*         returned
    sf_before,   \* simple filter: the same for the run before the last one
    delta,       \* status bands: the difference to the store that is
                 \*         classified, a double, and the analyzer it is of
    status_out,  \* status bands: what get_status returned in each analyzer
    date_column, \* result bundle: whether the dataset has the 처리일 column
    bundle,      \* result bundle: the analyzer last run and the dict it returned
    app_filters, \* application run: the filters dict of the run, with the
                 \*         step of the script it has reached
    app_result,  \* application run: the analyzer invoked, its result and the
                 \*         message surfaced
    summary_out  \* application run: the filters handed to get_filter_summary
                 \*         and after the call, and the entries it rendered

npsVars == <<scores, nps_out>>
parserVars == <<question, returned, extracted>>
analyzerVars == <<df, pc_out, sg_out, sg_before>>
sfVars == <<sf_out, sf_before>>
statusVars == <<delta, status_out>>
bundleVars == <<date_column, bundle>>
appVars == <<app_filters, app_result, summary_out>>
\* the simple filter analyzer, the status bands, the result bundles and the
\* application run
restVars == <<sfVars, statusVars, bundleVars, appVars>>
vars == <<npsVars, parserVars, analyzerVars, restVars>>

\* Python's None / an optional value: the empty sequence is None, <<v>> is v
None == << >>
Some(v) == <<v>>
Val(o) == o[1]

(***************************************************************************)
(* Bounds of the model.                                                    *)
(***************************************************************************)
MaxScores == 3
MaxKindWords == 3
MaxTargetWords == 4
MaxPeriodWords == 4
MaxRows == 3
MaxDelta == 600
MaxSummaryWords == 3
MaxAppWords == 3
MaxCalendarWords == 3
MaxSeniorWords == 3
MaxFloorRows == 7
MaxTrendRows == 4
MaxDetailRows == 4
MaxClassWords == 3
MaxRangeWords == 3

----------------------------------------------------------------------------
(* Arithmetic helpers *)

Abs(x) == IF x < 0 THEN -x ELSE x

\* floor(n / d) for d > 0, n any integer
FloorDiv(n, d) == IF n >= 0 THEN n \div d ELSE -(((-n) + d - 1) \div d)

\* the number of positions of s whose element satisfies Test
CountIf(s, Test(_)) == Cardinality({i \in DOMAIN s : Test(s[i])})

IsPromoter(score) == score >= 9
IsDetractor(score) == score <= 6

----------------------------------------------------------------------------
(* float64 arithmetic.  The analyzers compute in IEEE 754 double precision *)
(* (numpy.float64 and Python float): every division, multiplication,       *)
(* addition and subtraction returns the double nearest to the exact result,*)
(* ties to the even mantissa.  A double is carried as the record           *)
(* [neg, m, e] of the value (-1)^neg * m * 2^e, m a natural number of      *)
(* exactly 53 bits, or m = 0 for zero; a natural number beyond the         *)
(* checker's integers is carried as the sequence of its digits in base     *)
(* 2^15 = 32768, least significant first, << >> for zero.                  *)

RECURSIVE BigOfNat(_)
BigOfNat(n) == IF n = 0 THEN << >> ELSE <<n % 32768>> \o BigOfNat(n \div 32768)

RECURSIVE BigToNat(_)
BigToNat(a) == IF a = << >> THEN 0 ELSE a[1] + 32768 * BigToNat(Tail(a))

\* the digits without leading zeros
RECURSIVE BigNorm(_)
BigNorm(a) ==
    IF a = << >> THEN a
    ELSE IF a[Len(a)] = 0 THEN BigNorm(SubSeq(a, 1, Len(a) - 1))
    ELSE a

BigHead(a) == IF a = << >> THEN 0 ELSE a[1]
BigTail(a) == IF a = << >> THEN a ELSE Tail(a)
BigOdd(a) == a # << >> /\ a[1] % 2 = 1

\* a * c + carry for c < 2^15
RECURSIVE BigMulCarry(_, _, _)
BigMulCarry(a, c, carry) ==
    IF a = << >> THEN BigOfNat(carry)
    ELSE <<(a[1] * c + carry) % 32768>>
         \o BigMulCarry(Tail(a), c, (a[1] * c + carry) \div 32768)

BigMulSmall(a, c) == BigNorm(BigMulCarry(a, c, 0))

\* the quotient and remainder of (hi * 32768 + limb) by d, hi given by its
\* own quotient and remainder
BigDivCons(hi, limb, d) ==
    [q |-> <<(hi.r * 32768 + limb) \div d>> \o hi.q,
     r |-> (hi.r * 32768 + limb) % d]

\* the quotient q and the remainder r of a by d, for 0 < d < 2^15
RECURSIVE BigDivSmall(_, _)
BigDivSmall(a, d) ==
    IF a = << >> THEN [q |-> << >>, r |-> 0]
    ELSE BigDivCons(BigDivSmall(Tail(a), d), a[1], d)

RECURSIVE BitsOfNat(_)
BitsOfNat(n) == IF n = 0 THEN 0 ELSE 1 + BitsOfNat(n \div 2)

\* the number of bits of a, a without leading zeros
BigBits(a) == IF a = << >> THEN 0 ELSE (Len(a) - 1) * 15 + BitsOfNat(a[Len(a)])

\* a * 2^k
RECURSIVE BigShl(_, _)
BigShl(a, k) ==
    IF a = << >> THEN a
    ELSE IF k >= 15 THEN <<0>> \o BigShl(a, k - 15)
    ELSE BigMulSmall(a, 2 ^ k)

BigShrCons(limb, rest) == [q |-> rest.q, sticky |-> rest.sticky \/ limb # 0]
BigShrSmall(qr) == [q |-> BigNorm(qr.q), sticky |-> qr.r # 0]

\* q = floor(a / 2^k), sticky = whether bits were lost
RECURSIVE BigShr(_, _)
BigShr(a, k) ==
    IF k = 0 THEN [q |-> BigNorm(a), sticky |-> FALSE]
    ELSE IF a = << >> THEN [q |-> << >>, sticky |-> FALSE]
    ELSE IF k >= 15 THEN BigShrCons(a[1], BigShr(Tail(a), k - 15))
    ELSE BigShrSmall(BigDivSmall(a, 2 ^ k))

RECURSIVE BigAddCarry(_, _, _)
BigAddCarry(a, b, carry) ==
    IF a = << >> /\ b = << >> THEN BigOfNat(carry)
    ELSE <<(BigHead(a) + BigHead(b) + carry) % 32768>>
         \o BigAddCarry(BigTail(a), BigTail(b),
                        (BigHead(a) + BigHead(b) + carry) \div 32768)

BigAdd(a, b) == BigNorm(BigAddCarry(a, b, 0))

\* a - b - borrow for a >= b + borrow
RECURSIVE BigSubBorrow(_, _, _)
BigSubBorrow(a, b, borrow) ==
    IF a = << >> THEN a
    ELSE <<(a[1] - BigHead(b) - borrow + 32768) % 32768>>
         \o BigSubBorrow(Tail(a), BigTail(b),
                         IF a[1] - BigHead(b) - borrow < 0 THEN 1 ELSE 0)

BigSub(a, b) == BigNorm(BigSubBorrow(a, b, 0))

\* -1, 0 or 1 as a is below, equal to or above b, both without leading zeros
RECURSIVE BigCmp(_, _)
BigCmp(a, b) ==
    IF Len(a) # Len(b) THEN (IF Len(a) < Len(b) THEN -1 ELSE 1)
    ELSE IF a = << >> THEN 0
    ELSE IF a[Len(a)] # b[Len(b)] THEN (IF a[Len(a)] < b[Len(b)] THEN -1 ELSE 1)
    ELSE BigCmp(SubSeq(a, 1, Len(a) - 1), SubSeq(b, 1, Len(b) - 1))

\* q1 = floor(a / 2^(k-1)) halved and rounded to nearest, ties to even
BigRoundHalf(q1, sticky, q) ==
    IF BigOdd(q1) /\ (sticky \/ BigOdd(q)) THEN BigAdd(q, <<1>>) ELSE q
BigRoundShrOf(s) == BigRoundHalf(s.q, s.sticky, BigShr(s.q, 1).q)

\* a / 2^k rounded to the nearest integer, ties to even, for k >= 1
BigRoundShr(a, k) == BigRoundShrOf(BigShr(a, k - 1))

Float(neg, m, e) == [neg |-> neg, m |-> m, e |-> e]
FZero == Float(FALSE, << >>, 0)

\* a mantissa that rounding carried to 2^53 is 2^52 at the next exponent
FRenorm(neg, r, e) ==
    IF BigBits(r) = 54 THEN Float(neg, BigShr(r, 1).q, e + 1) ELSE Float(neg, r, e)

FRoundBits(neg, m, sticky, e, n) ==
    IF n = 0 THEN FZero
    ELSE IF n <= 53 THEN Float(neg, BigShl(m, 53 - n), e - (53 - n))
    ELSE FRenorm(neg,
                 BigRoundShr(BigAdd(BigMulSmall(m, 2),
                                    IF sticky THEN <<1>> ELSE << >>), n - 52),
                 e + n - 53)

\* the double nearest to (-1)^neg * x * 2^e, where x = m if ~sticky and
\* m < x < m + 1 if sticky (m then has more than 53 bits)
FRound(neg, m, sticky, e) == FRoundBits(neg, BigNorm(m), sticky, e, BigBits(BigNorm(m)))

FRoundDiv(neg, qr, e) == FRound(neg, qr.q, qr.r # 0, e)

\* float(n) for an integer n
FOfInt(n) == FRound(n < 0, BigOfNat(Abs(n)), FALSE, 0)

\* n / d in float64 for integers n and 0 < d < 2^15; also float(text) of
\* the decimal text of n / d for d a power of ten
FDivInts(n, d) == FRoundDiv(n < 0, BigDivSmall(BigShl(BigOfNat(Abs(n)), 75), d), -75)

\* x * c in float64 for an integer 0 < c < 2^15
FMulSmall(x, c) == FRound(x.neg, BigMulSmall(x.m, c), FALSE, x.e)

\* x / d in float64 for an integer 0 < d < 2^15
FDivSmall(x, d) == FRoundDiv(x.neg, BigDivSmall(BigShl(x.m, 30), d), x.e - 30)

FSign(x) == IF x.m = << >> THEN 0 ELSE IF x.neg THEN -1 ELSE 1

FCmpAbs(x, y) ==
    IF x.m = << >> \/ y.m = << >> THEN BigCmp(x.m, y.m)
    ELSE IF x.e # y.e THEN (IF x.e < y.e THEN -1 ELSE 1)
    ELSE BigCmp(x.m, y.m)

\* -1, 0 or 1 as x < y, x = y or x > y
FCmp(x, y) ==
    IF FSign(x) # FSign(y) THEN (IF FSign(x) < FSign(y) THEN -1 ELSE 1)
    ELSE FSign(x) * FCmpAbs(x, y)

FNeg(x) == Float(~x.neg, x.m, x.e)
FAbs(x) == Float(FALSE, x.m, x.e)

\* the sum of two doubles whose mantissas a and b are at the same exponent e
FAddAligned(xneg, a, yneg, b, e) ==
    IF xneg = yneg THEN FRound(xneg, BigAdd(a, b), FALSE, e)
    ELSE IF BigCmp(a, b) = 0 THEN FZero
    ELSE IF BigCmp(a, b) > 0 THEN FRound(xneg, BigSub(a, b), FALSE, e)
    ELSE FRound(yneg, BigSub(b, a), FALSE, e)

FAddAt(x, y, e) ==
    FAddAligned(x.neg, BigShl(x.m, x.e - e), y.neg, BigShl(y.m, y.e - e), e)

\* x + y in float64
FAdd(x, y) ==
    IF x.m = << >> THEN y
    ELSE IF y.m = << >> THEN x
    ELSE IF x.e <= y.e THEN FAddAt(x, y, x.e)
    ELSE FAddAt(x, y, y.e)

\* x - y in float64
FSub(x, y) == FAdd(x, FNeg(y))

FRoundTimesAbs(m, e) ==
    IF e >= 0 THEN BigToNat(BigShl(m, e)) ELSE BigToNat(BigRoundShr(m, -e))

\* x * c rounded to the nearest integer, ties to even, the product exact
FRoundTimes(x, c) ==
    IF x.neg THEN -FRoundTimesAbs(BigMulSmall(x.m, c), x.e)
    ELSE FRoundTimesAbs(BigMulSmall(x.m, c), x.e)

\* numpy.rint(x)
FRint(x) == FRoundTimes(x, 1)

\* the number of tenths of the text f"{x:.1f}": the decimal nearest to the
\* exact value of the double, ties to even
FFmt1(x) == FRoundTimes(x, 10)

\* round(x, 2) of a numpy.float64, which is rint(x * 100) / 100; the result
\* is carried as the integer rint(x * 100), its number of hundredths
FRound2(x) == FRint(FMulSmall(x, 100))

\* count / total * 100 in float64
FPercent(count, total) == FMulSmall(FDivInts(count, total), 100)

\* the double of a number carried in hundredths
FOfHundredths(h) == FDivInts(h, 100)

\* float(text) of a text of one decimal carried in tenths
FOfTenths(t) == FDivInts(t, 10)

----------------------------------------------------------------------------
(* Text: a question is a sequence of pieces of text, its text the sequence  *)
(* of the pieces' characters.  Spell gives the characters of each piece    *)
(* and of each keyword of the parser's tables.  A Korean word is named by  *)
(* its romanization ("sinieo" is 시니어) and a Hangul syllable is the      *)
(* character "uXXXX" of its code point; ASCII text stands for itself.      *)

Spell(tok) ==
    CASE tok = "incheon" -> <<"uC778", "uCC9C">>    \* 인천
      [] tok = "nambu" -> <<"uB0A8", "uBD80">>    \* 남부
      [] tok = "gangseo" -> <<"uAC15", "uC11C">>    \* 강서
      [] tok = "suwon" -> <<"uC218", "uC6D0">>    \* 수원
      [] tok = "miman" -> <<"uBBF8", "uB9CC">>    \* 미만
      [] tok = "iha" -> <<"uC774", "uD558">>    \* 이하
      [] tok = "najeun" -> <<"uB0AE", "uC740">>    \* 낮은
      [] tok = "arae" -> <<"uC544", "uB798">>    \* 아래
      [] tok = "isang" -> <<"uC774", "uC0C1">>    \* 이상
      [] tok = "chogwa" -> <<"uCD08", "uACFC">>    \* 초과
      [] tok = "neomneun" -> <<"uB118", "uB294">>    \* 넘는
      [] tok = "neomeun" -> <<"uB118", "uC740">>    \* 넘은
      [] tok = "nopeun" -> <<"uB192", "uC740">>    \* 높은
      [] tok = "wi" -> <<"uC704">>    \* 위
      [] tok = "natgo" -> <<"uB0AE", "uACE0">>    \* 낮고
      [] tok = "najeumyeonseo" -> <<"uB0AE", "uC73C", "uBA74", "uC11C">>    \* 낮으면서
      [] tok = "najeum" -> <<"uB0AE", "uC74C">>    \* 낮음
      [] tok = "naja" -> <<"uB0AE", "uC544">>    \* 낮아
      [] tok = "nopgo" -> <<"uB192", "uACE0">>    \* 높고
      [] tok = "nopeumyeonseo" -> <<"uB192", "uC73C", "uBA74", "uC11C">>    \* 높으면서
      [] tok = "nopeum" -> <<"uB192", "uC74C">>    \* 높음
      [] tok = "nopa" -> <<"uB192", "uC544">>    \* 높아
      [] tok = "sinieo" -> <<"uC2DC", "uB2C8", "uC5B4">>    \* 시니어
      [] tok = "bijung" -> <<"uBE44", "uC911">>    \* 비중
      [] tok = "bijungi" -> <<"uBE44", "uC911", "uC774">>    \* 비중이
      [] tok = "maneun" -> <<"uB9CE", "uC740">>    \* 많은
      [] tok = "jeogeun" -> <<"uC801", "uC740">>    \* 적은
      [] tok = "eungdap" -> <<"uC751", "uB2F5">>    \* 응답
      [] tok = "geon" -> <<"uAC74">>    \* 건
      [] tok = "jeom" -> <<"uC810">>    \* 점
      [] tok = "maejang" -> <<"uB9E4", "uC7A5">>    \* 매장
      [] tok = "daerijeom" -> <<"uB300", "uB9AC", "uC810">>    \* 대리점
      [] tok = "wol" -> <<"uC6D4">>    \* 월
      [] tok = "il" -> <<"uC77C">>    \* 일
      [] tok = "daebi" -> <<"uB300", "uBE44">>    \* 대비
      [] tok = "nujeok" -> <<"uB204", "uC801">>    \* 누적
      [] tok = "bigyo" -> <<"uBE44", "uAD50">>    \* 비교
      [] tok = "chai" -> <<"uCC28", "uC774">>    \* 차이
      [] tok = "harak" -> <<"uD558", "uB77D">>    \* 하락
      [] tok = "najajin" -> <<"uB0AE", "uC544", "uC9C4">>    \* 낮아진
      [] tok = "tteoreojin" -> <<"uB5A8", "uC5B4", "uC9C4">>    \* 떨어진
      [] tok = "sangseung" -> <<"uC0C1", "uC2B9">>    \* 상승
      [] tok = "nopajin" -> <<"uB192", "uC544", "uC9C4">>    \* 높아진
      [] tok = "ollagan" -> <<"uC62C", "uB77C", "uAC04">>    \* 올라간
      [] tok = "gigan" -> <<"uAE30", "uAC04">>    \* 기간
      [] tok = "nyeon" -> <<"uB144">>    \* 년
      [] tok = "jeonche" -> <<"uC804", "uCCB4">>    \* 전체
      [] tok = "ga" -> <<"uAC00">>    \* 가
      [] tok = "eun" -> <<"uC740">>    \* 은
      [] tok = "in" -> <<"uC778">>    \* 인
      [] tok = "got" -> <<"uACF3">>    \* 곳
      [] tok = "gangnamjeom" -> <<"uAC15", "uB0A8", "uC810">>    \* 강남점
      [] tok = "oryu" -> <<"uC624", "uB958">>    \* 오류
      [] tok = "nps" -> <<"n", "p", "s">>
      [] tok = "NPS" -> <<"N", "P", "S">>
      [] tok = "gap" -> <<"g", "a", "p">>
      [] tok = "GAP" -> <<"G", "A", "P">>
      [] tok = "vs" -> <<"v", "s">>
      [] tok = "D12" -> <<"D", "1", "2">>
      [] tok = "12" -> <<"1", "2">>
      [] tok = "13" -> <<"1", "3">>
      [] tok = "29" -> <<"2", "9">>
      [] tok = "30" -> <<"3", "0">>
      [] tok = "31" -> <<"3", "1">>
      [] tok = "87" -> <<"8", "7">>
      [] tok = "90" -> <<"9", "0">>
      [] tok = "150" -> <<"1", "5", "0">>
      [] tok = "1234" -> <<"1", "2", "3", "4">>
      [] tok = "2024" -> <<"2", "0", "2", "4">>
      [] tok = "2025" -> <<"2", "0", "2", "5">>
      [] tok = "2026" -> <<"2", "0", "2", "6">>
      [] tok = "bijungi nopeun" -> <<"uBE44", "uC911", "uC774", " ", "uB192", "uC740">>    \* 비중이 높은
      [] tok = "bijung nopeun" -> <<"uBE44", "uC911", " ", "uB192", "uC740">>    \* 비중 높은
      [] tok = "bijungi najeun" -> <<"uBE44", "uC911", "uC774", " ", "uB0AE", "uC740">>    \* 비중이 낮은
      [] tok = "bijung najeun" -> <<"uBE44", "uC911", " ", "uB0AE", "uC740">>    \* 비중 낮은
      [] tok = "sinieo bijung" -> <<"uC2DC", "uB2C8", "uC5B4", " ", "uBE44", "uC911">>    \* 시니어 비중
      [] tok = "sinieo GAP" -> <<"uC2DC", "uB2C8", "uC5B4", " ", "G", "A", "P">>    \* 시니어 GAP
      [] tok = "daebi harak" -> <<"uB300", "uBE44", " ", "uD558", "uB77D">>    \* 대비 하락
      [] tok = "gigan sangseung" -> <<"uAE30", "uAC04", " ", "uC0C1", "uC2B9">>    \* 기간 상승
      [] tok = "9~" -> <<"9", "~">>
      [] tok = "12wol" -> <<"1", "2", "uC6D4">>    \* 12월
      [] tok = "13wol" -> <<"1", "3", "uC6D4">>    \* 13월
      [] tok = "0wol" -> <<"0", "uC6D4">>    \* 0월
      [] tok = " daebi 1wol" -> <<" ", "uB300", "uBE44", " ", "1", "uC6D4">>    \*  대비 1월
      [] tok = "2il" -> <<"2", "uC77C">>    \* 2일
      [] tok = "1wol" -> <<"1", "uC6D4">>    \* 1월
      [] tok = "4wol" -> <<"4", "uC6D4">>    \* 4월
      [] tok = " daebi 2wol" -> <<" ", "uB300", "uBE44", " ", "2", "uC6D4">>    \*  대비 2월
      [] tok = "29il" -> <<"2", "9", "uC77C">>    \* 29일
      [] tok = "30il" -> <<"3", "0", "uC77C">>    \* 30일
      [] tok = " daebi 29il" -> <<" ", "uB300", "uBE44", " ", "2", "9", "uC77C">>    \*  대비 29일
      [] tok = "2024nyeon 02wol" -> <<"2", "0", "2", "4", "uB144", " ", "0", "2", "uC6D4">>    \* 2024년 02월
      [] tok = "2025nyeon 04wol" -> <<"2", "0", "2", "5", "uB144", " ", "0", "4", "uC6D4">>    \* 2025년 04월
      [] tok = " daebi 30il" -> <<" ", "uB300", "uBE44", " ", "3", "0", "uC77C">>    \*  대비 30일
      [] tok = " daebi 5il" -> <<" ", "uB300", "uBE44", " ", "5", "uC77C">>    \*  대비 5일
      [] tok = "2025nyeon 02wol" -> <<"2", "0", "2", "5", "uB144", " ", "0", "2", "uC6D4">>    \* 2025년 02월
      [] tok = "12wol daebi 1wol" -> <<"1", "2", "uC6D4", " ", "uB300", "uBE44", " ", "1", "uC6D4">>    \* 12월 대비 1월
      [] tok = "2il daebi 5il" -> <<"2", "uC77C", " ", "uB300", "uBE44", " ", "5", "uC77C">>    \* 2일 대비 5일
      [] tok = " bijung" -> <<" ", "uBE44", "uC911">>    \*  비중
      [] tok = " 30" -> <<" ", "3", "0">>    \*  30
      [] tok = "% isang" -> <<"%", " ", "uC774", "uC0C1">>    \* % 이상
      [] tok = " neomneun" -> <<" ", "uB118", "uB294">>    \*  넘는
      [] tok = " maneun" -> <<" ", "uB9CE", "uC740">>    \*  많은
      [] tok = " jeogeun" -> <<" ", "uC801", "uC740">>    \*  적은
      [] tok = " nopgo" -> <<" ", "uB192", "uACE0">>    \*  높고
      [] tok = " natgo" -> <<" ", "uB0AE", "uACE0">>    \*  낮고
      [] tok = " bijungi najeun" -> <<" ", "uBE44", "uC911", "uC774", " ", "uB0AE", "uC740">>    \*  비중이 낮은
      [] tok = "NPS 90" -> <<"N", "P", "S", " ", "9", "0">>    \* NPS 90
      [] tok = " 5il" -> <<" ", "5", "uC77C">>    \*  5일
      [] tok = " sangseung" -> <<" ", "uC0C1", "uC2B9">>    \*  상승
      [] tok = " bigyo" -> <<" ", "uBE44", "uAD50">>    \*  비교
      [] tok = "0il" -> <<"0", "uC77C">>    \* 0일
      [] tok = "0~" -> <<"0", "~">>    \* 0~
      [] tok = "12~" -> <<"1", "2", "~">>    \* 12~
      [] tok = "9wol" -> <<"9", "uC6D4">>    \* 9월
      [] OTHER -> <<tok>>

RECURSIVE Text(_)
Text(q) == IF q = << >> THEN << >> ELSE Spell(Head(q)) \o Text(Tail(q))

DigitChars == {"0", "1", "2", "3", "4", "5", "6", "7", "8", "9"}
LowerLetters == {"a", "d", "g", "n", "p", "s", "t", "v"}
UpperLetters == {"A", "D", "G", "N", "P", "S", "T", "V"}
OtherAscii == {" ", "%", "~", ",", "?", ":", "-"}

IsDigit(c) == c \in DigitChars
NonDigit(c) == c \notin DigitChars
IsSpace(c) == c = " "
IsAsciiAlnum(c) == c \in DigitChars \cup LowerLetters \cup UpperLetters
\* [가-힣]: every character of the model's alphabet that is not ASCII
IsHangul(c) == c \notin DigitChars \cup LowerLetters \cup UpperLetters \cup OtherAscii
\* \w of a str pattern: letters of any script, digits, underscore
IsWordChar(c) == IsAsciiAlnum(c) \/ IsHangul(c)
NonWordChar(c) == ~IsWordChar(c)

DigitVal(c) ==
    CASE c = "0" -> 0 [] c = "1" -> 1 [] c = "2" -> 2 [] c = "3" -> 3 [] c = "4" -> 4
      [] c = "5" -> 5 [] c = "6" -> 6 [] c = "7" -> 7 [] c = "8" -> 8 [] c = "9" -> 9

\* str.lower() and str.upper(), character by character
LowerChar(c) ==
    CASE c = "A" -> "a" [] c = "D" -> "d" [] c = "G" -> "g" [] c = "N" -> "n"
      [] c = "P" -> "p" [] c = "S" -> "s" [] c = "T" -> "t" [] c = "V" -> "v"
      [] OTHER -> c
UpperChar(c) ==
    CASE c = "a" -> "A" [] c = "d" -> "D" [] c = "g" -> "G" [] c = "n" -> "N"
      [] c = "p" -> "P" [] c = "s" -> "S" [] c = "t" -> "T" [] c = "v" -> "V"
      [] OTHER -> c
Lower(t) == [i \in DOMAIN t |-> LowerChar(t[i])]
Upper(t) == [i \in DOMAIN t |-> UpperChar(t[i])]

Min(S) == CHOOSE x \in S : \A y \in S : x <= y
Max(S) == CHOOSE x \in S : \A y \in S : x >= y

\* t[a..b], empty when b < a
Slice(t, a, b) == [i \in 1 .. (b - a + 1) |-> t[a + i - 1]]

\* the characters w stand in t at position i
SubAt(t, i, w) ==
    /\ i >= 1
    /\ i + Len(w) - 1 <= Len(t)
    /\ \A j \in 1 .. Len(w) : t[i + j - 1] = w[j]

\* the positions of t where keyword kw stands; `kw in t`
Occ(t, kw) == LET w == Spell(kw) IN {i \in 1 .. Len(t) : SubAt(t, i, w)}
Has(t, kw) == Occ(t, kw) # {}
HasAny(t, kws) == \E kw \in kws : Has(t, kw)

\* membership of a character in a class of the regular expressions:
\* \d, [^\d], \s, [A-Z0-9] (ignoring case), [가-힣], [^\w]
InClass(c, class) ==
    CASE class = "digit" -> IsDigit(c)
      [] class = "nondigit" -> NonDigit(c)
      [] class = "space" -> IsSpace(c)
      [] class = "alnum" -> IsAsciiAlnum(c)
      [] class = "hangul" -> IsHangul(c)
      [] class = "nonword" -> NonWordChar(c)

\* the last position of the longest run of characters of the class that starts
\* at i (i - 1 when t[i] is not in the class or i is past the end)
RunEnd(t, i, class) ==
    Max({i - 1} \cup {j \in i .. Len(t) : \A k \in i .. j : InClass(t[k], class)})

\* the bounds <<s, e>> of the run of the class that starts at s (e < s when
\* the run is empty)
ClassRun(t, s, class) == <<s, RunEnd(t, s, class)>>

\* [^\d]*(\d+) from position a: the bounds of the number
NumberAfter(t, a) == ClassRun(t, RunEnd(t, a, "nondigit") + 1, "digit")

\* int(t[a..b]) of a run of digits
RECURSIVE ToInt(_, _, _)
ToInt(t, a, b) == IF b < a THEN 0 ELSE ToInt(t, a, b - 1) * 10 + DigitVal(t[b])

\* re.search: the match at the leftmost position where the pattern matches.
\* m[i] is the match that starts at position i, given by the bounds of its
\* groups, or << >> where the pattern does not match
Leftmost(m) ==
    LET hits == {i \in DOMAIN m : m[i] # << >>}
    IN  IF hits = {} THEN None ELSE Some(m[Min(hits)])

\* match.group(1) of a match with one group, or None
Group(t, match) ==
    IF match = None THEN None ELSE Some(Slice(t, Val(match)[1], Val(match)[2]))

\* the groups of a match read with int(), in order, or None
GroupInts(t, match) ==
    IF match = None THEN None
    ELSE Some([k \in 1 .. (Len(Val(match)) \div 2) |->
                  ToInt(t, Val(match)[2 * k - 1], Val(match)[2 * k])])

\* a match continued by a further part of the pattern
Joined(first, rest) == IF rest = << >> THEN << >> ELSE first \o rest

\* the word w stands wholly inside t[a..b]
WordWithin(t, a, b, w) == \E p \in a .. (b - Len(w) + 1) : SubAt(t, p, w)

\* some keyword of kws stands wholly inside t[a..b]
KeywordWithin(t, a, b, kws) == \E kw \in kws : WordWithin(t, a, b, Spell(kw))

\* (\d+)%?[^\d]*(kw1|kw2|...): the number n, when it is not empty and one of
\* the keywords follows it before the next digit
NumberThenKeyword(t, n, kws) ==
    IF /\ n[2] >= n[1]
       /\ KeywordWithin(t, n[2] + 1, RunEnd(t, n[2] + 1, "nondigit"), kws)
    THEN n ELSE << >>

\* (\d+)<word>: the number n, when it is not empty and the word follows it
NumberThenWord(t, n, word) ==
    IF n[2] >= n[1] /\ SubAt(t, n[2] + 1, Spell(word)) THEN n ELSE << >>

----------------------------------------------------------------------------
(* Query parser: the extraction sub-steps of src/query_parser.py *)

\* QueryParser.__init__: team_keywords, in the dict's insertion order
team_keywords ==
    << <<"incheon", "incheon-marketingteam">>,     \* 인천 -> 인천마케팅팀
       <<"nambu", "nambu-marketingteam">>,         \* 남부 -> 남부마케팅팀
       <<"gangseo", "gangseo-marketingteam">>,     \* 강서 -> 강서마케팅팀
       <<"suwon", "suwon-marketingteam">> >>       \* 수원 -> 수원마케팅팀

\* the value of the first entry of the table among the entries hits
FirstTeam(hits) == IF hits = {} THEN None ELSE Some(team_keywords[Min(hits)][2])

\* _extract_team: the first entry of the table whose keyword is in the text
_extract_team(t) ==
    FirstTeam({k \in DOMAIN team_keywords : Has(t, team_keywords[k][1])})

\* re.search(r'nps[^\d]*(\d+)%?[^\d]*(kw1|kw2|...)', t): the number matched, or
\* None.  From an occurrence of "nps" the match runs over non-digits to the
\* first run of digits, takes the whole run, and needs one of the keywords
\* before the next digit.
NpsNumberThenKeyword(t, kws) ==
    GroupInts(t, Leftmost([i \in Occ(t, "nps") |->
                              NumberThenKeyword(t, NumberAfter(t, i + 3), kws)]))

BelowKeywords == {"miman", "iha", "najeun", "arae"}                     \* 미만|이하|낮은|아래
AboveKeywords == {"isang", "chogwa", "neomneun", "neomeun", "nopeun", "wi"}  \* 이상|초과|넘는|넘은|높은|위
LowSentiment  == {"najeun", "natgo", "najeumyeonseo", "najeum", "naja"}  \* 낮은 낮고 낮으면서 낮음 낮아
HighSentiment == {"nopeun", "nopgo", "nopeumyeonseo", "nopeum", "nopa"}  \* 높은 높고 높으면서 높음 높아
DefaultNpsTarget == 87

\* _extract_nps_target, lines 107-135: pattern1 and pattern2 are the numbers
\* the two regular expressions matched
NpsTarget(t, pattern1, pattern2) ==
    IF pattern1 # None THEN Some([target |-> Val(pattern1)[1], comparison |-> "below"])
    ELSE IF pattern2 # None THEN Some([target |-> Val(pattern2)[1], comparison |-> "above"])
    ELSE IF HasAny(t, LowSentiment)
         THEN Some([target |-> DefaultNpsTarget, comparison |-> "below"])
    ELSE IF HasAny(t, HighSentiment)
         THEN Some([target |-> DefaultNpsTarget, comparison |-> "above"])
    ELSE None

\* mutant: a question that names NPS without a condition gets the default target
_extract_nps_target_default(t) ==
    IF ~Has(t, "nps") THEN None
    ELSE LET p1 == NpsNumberThenKeyword(t, BelowKeywords)
             p2 == NpsNumberThenKeyword(t, AboveKeywords)
         IN  IF p1 # None THEN Some([target |-> Val(p1)[1], comparison |-> "below"])
             ELSE IF p2 # None THEN Some([target |-> Val(p2)[1], comparison |-> "above"])
             ELSE IF HasAny(t, HighSentiment)
                  THEN Some([target |-> DefaultNpsTarget, comparison |-> "above"])
             ELSE Some([target |-> DefaultNpsTarget, comparison |-> "below"])

\* _extract_nps_target (on the lower-cased question)
_extract_nps_target(t) ==
    IF ~Has(t, "nps") THEN None
    ELSE NpsTarget(t, NpsNumberThenKeyword(t, BelowKeywords),
                      NpsNumberThenKeyword(t, AboveKeywords))

\* 시니어[^\d]*비중[^\d]*(\d+)%?[^\d]*(이상|넘는) from an occurrence of 시니어
\* at i, n being the first number after it
SeniorCustomMatch(t, i, n) ==
    IF KeywordWithin(t, i + 3, n[1] - 1, {"bijung"})
    THEN NumberThenKeyword(t, n, {"isang", "neomneun"})
    ELSE << >>

\* re.search(r'시니어[^\d]*비중[^\d]*(\d+)%?[^\d]*(이상|넘는)', t): the digits
\* matched (as text), or None
SeniorCustomPattern(t) ==
    Group(t, Leftmost([i \in Occ(t, "sinieo") |->
                          SeniorCustomMatch(t, i, NumberAfter(t, i + 3))]))

\* 'avg', 'below_avg' or f"custom:{digits}"
SeniorTag(tag, digits) == [tag |-> tag, value |-> digits]

\* mutant: the keywords of the low branch are tested before those of the high
SeniorThreshold_low_first(t, pattern) ==
    IF pattern # None THEN Some(SeniorTag("custom", Val(pattern)))
    ELSE IF HasAny(t, {"bijungi najeun", "bijung najeun", "jeogeun", "najeumyeonseo"})
         THEN Some(SeniorTag("below_avg", << >>))
    ELSE Some(SeniorTag("avg", << >>))

\* _extract_senior_threshold, lines 150-161: pattern is what the regular
\* expression matched
SeniorThreshold(t, pattern) ==
    IF pattern # None THEN Some(SeniorTag("custom", Val(pattern)))
    ELSE IF HasAny(t, {"bijungi nopeun", "bijung nopeun", "maneun", "nopgo", "nopeumyeonseo"})
         THEN Some(SeniorTag("avg", << >>))
    ELSE IF HasAny(t, {"bijungi najeun", "bijung najeun", "jeogeun", "najeumyeonseo"})
         THEN Some(SeniorTag("below_avg", << >>))
    ELSE Some(SeniorTag("avg", << >>))

\* _extract_senior_threshold (on the lower-cased question)
_extract_senior_threshold(t) ==
    IF ~Has(t, "sinieo") THEN None ELSE SeniorThreshold(t, SeniorCustomPattern(t))

\* int(pattern.group(1)) when the pattern matched, else 5
IntOr5(number) == IF number = None THEN 5 ELSE Val(number)[1]

\* _extract_min_responses: re.search(r'응답[^\d]*(\d+)건', t), else 5
_extract_min_responses(t) ==
    IntOr5(GroupInts(t, Leftmost([i \in Occ(t, "eungdap") |->
                                     NumberThenWord(t, NumberAfter(t, i + 2), "geon")])))

\* ([가-힣]+점) from position i: the longest run of Hangul that ends in 점,
\* ends being the positions after i of the run where 점 stands
StoreNameMatch(t, i, ends) ==
    IF IsHangul(t[i]) /\ ends # {} THEN <<i, Max(ends)>> ELSE << >>

\* the positions after i where the character jeom stands in the run of Hangul
\* that starts at i
HangulRunEnds(t, i, jeom) == {p \in (i + 1) .. RunEnd(t, i, "hangul") : t[p] = jeom}

\* re.search(r'([가-힣]+점)', t), jeom being the character 점
StoreNamePattern(t, jeom) ==
    Group(t, Leftmost([i \in 1 .. Len(t) |->
                          StoreNameMatch(t, i, HangulRunEnds(t, i, jeom))]))

\* _extract_store_name: re.search(r'([가-힣]+점)', t)
_extract_store_name(t) == StoreNamePattern(t, Spell("jeom")[1])

\* (\d{4}): the first four digits of the number n
FourDigits(n) == IF n[2] >= n[1] + 3 THEN <<n[1], n[1] + 3>> ELSE << >>

\* _extract_store_code: re.search(r'매장[^\d]*(\d{4})', t)
_extract_store_code(t) ==
    Group(t, Leftmost([i \in Occ(t, "maejang") |-> FourDigits(NumberAfter(t, i + 2))]))

\* a run r when it is not empty
NonEmpty(r) == IF r[2] >= r[1] THEN r ELSE << >>

\* pattern.group(1).upper() if pattern else None
UpperGroup(group) == IF group = None THEN None ELSE Some(Upper(Val(group)))

\* _extract_dealer_code: re.search(r'대리점[^\w]*([A-Z0-9]+)', t, re.IGNORECASE),
\* upper-cased
_extract_dealer_code(t) ==
    UpperGroup(Group(t, Leftmost([i \in Occ(t, "daerijeom") |->
        NonEmpty(ClassRun(t, RunEnd(t, i + 3, "nonword") + 1, "alnum"))])))

\* (D\d+), ignoring case: the letter before the run of digits r, and the run
DThenDigits(t, r) ==
    IF /\ r[1] - 1 <= Len(t)
       /\ t[r[1] - 1] \in {"D", "d"}
       /\ r[2] >= r[1]
    THEN <<r[1] - 1, r[2]>> ELSE << >>

\* _extract_dealer_id: re.search(r'대리점[^\w]*(D\d+)', t, re.IGNORECASE)
_extract_dealer_id(t) ==
    Group(t, Leftmost([i \in Occ(t, "daerijeom") |->
        DThenDigits(t, ClassRun(t, RunEnd(t, i + 3, "nonword") + 2, "digit"))]))

\* _detect_comparison
_detect_comparison(t) == HasAny(t, {"daebi", "bigyo", "vs", "chai"})    \* 대비 비교 vs 차이

\* mutant: the keywords of a rise are tested before those of a fall
_detect_trend_rise_first(t) ==
    IF HasAny(t, {"sangseung", "nopajin", "ollagan"}) THEN Some("increase")
    ELSE IF HasAny(t, {"harak", "najajin", "tteoreojin"}) THEN Some("decrease")
    ELSE None

\* _detect_trend
_detect_trend(t) ==
    IF HasAny(t, {"harak", "najajin", "tteoreojin"}) THEN Some("decrease")      \* 하락 낮아진 떨어진
    ELSE IF HasAny(t, {"sangseung", "nopajin", "ollagan"}) THEN Some("increase")  \* 상승 높아진 올라간
    ELSE None

SeniorKeywords ==     \* 비중 높은 높고 높으면서 낮은 낮고 낮으면서 많은 적은
    {"bijung", "nopeun", "nopgo", "nopeumyeonseo", "najeun", "natgo",
     "najeumyeonseo", "maneun", "jeogeun"}

\* mutant: the period-comparison rule is tried before the senior-gap rule
_detect_analysis_type_period_first(t) ==
    IF (Has(t, "nps") \/ Has(t, "NPS"))
       /\ ~Has(t, "sinieo") /\ ~Has(t, "daebi") /\ ~Has(t, "bigyo")
    THEN "simple_filter"
    ELSE IF HasAny(t, {"gigan", "daebi", "bigyo"}) /\ HasAny(t, {"sangseung", "harak"})
    THEN "period_comparison"
    ELSE IF Has(t, "sinieo") /\ (Has(t, "nps") \/ Has(t, "NPS"))
            /\ (HasAny(t, SeniorKeywords) \/ HasAny(t, {"gap", "GAP", "chai"}))
    THEN "senior_gap"
    ELSE IF Has(t, "maejang") \/ Has(t, "daerijeom")
    THEN "store_analysis"
    ELSE "general"

\* mutant: a question that mentions NPS is a simple filter whatever else it
\* mentions
_detect_analysis_type_nps_only(t) ==
    IF Has(t, "nps") \/ Has(t, "NPS")
    THEN "simple_filter"
    ELSE IF HasAny(t, {"gigan", "daebi", "bigyo"}) /\ HasAny(t, {"sangseung", "harak"})
    THEN "period_comparison"
    ELSE IF Has(t, "maejang") \/ Has(t, "daerijeom")
    THEN "store_analysis"
    ELSE "general"

\* _detect_analysis_type (on the lower-cased question)
_detect_analysis_type(t) ==
    IF (Has(t, "nps") \/ Has(t, "NPS"))
       /\ ~Has(t, "sinieo") /\ ~Has(t, "daebi") /\ ~Has(t, "bigyo")
    THEN "simple_filter"
    ELSE IF Has(t, "sinieo") /\ (Has(t, "nps") \/ Has(t, "NPS"))
            /\ (HasAny(t, SeniorKeywords) \/ HasAny(t, {"gap", "GAP", "chai"}))
    THEN "senior_gap"
    ELSE IF HasAny(t, {"gigan", "daebi", "bigyo"}) /\ HasAny(t, {"sangseung", "harak"})
    THEN "period_comparison"
    ELSE IF Has(t, "maejang") \/ Has(t, "daerijeom")
    THEN "store_analysis"
    ELSE "general"

\* a date as the parser writes it, f'{y}-{m:02d}-{d:02d}'
Date(y, m, d) == [y |-> y, m |-> m, d |-> d]

\* the first and the last day _extract_period writes for a month
MonthOf2025(month) ==
    IF month = None THEN None
    ELSE Some(<<Date(2025, Val(month)[1], 1), Date(2025, Val(month)[1], 31)>>)

\* _extract_period: re.search(r'(\d+)월', t); the second pattern of the source
\* is never reached with a match (it contains the first)
_extract_period(t) ==
    MonthOf2025(GroupInts(t, Leftmost([i \in 1 .. Len(t) |->
                    NumberThenWord(t, ClassRun(t, i, "digit"), "wol")])))

----------------------------------------------------------------------------
(* Query parser: comparison periods *)

\* calendar.isleap
IsLeap(year) == year % 4 = 0 /\ (year % 100 # 0 \/ year % 400 = 0)

\* calendar.monthrange(year, month)[1] for a month in 1..12
MonthDays(year, month) ==
    IF month = 2 THEN (IF IsLeap(year) THEN 29 ELSE 28)
    ELSE IF month \in {4, 6, 9, 11} THEN 30 ELSE 31

\* calendar.monthrange raises IllegalMonthError unless 1 <= month <= 12
MonthRangeRaises(month) == month < 1 \/ month > 12

\* the labels the parser attaches to a period
MonthLabel(m) == [kind |-> "month", a |-> m, b |-> 0]               \* f'{m}월'
RangeLabel(ma, mb) == [kind |-> "months", a |-> ma, b |-> mb]       \* f'{ma}~{mb}월'
CumDayLabel(m, d) == [kind |-> "cumulative", a |-> m, b |-> d]      \* f'{m}월 {d}일 누적'
ErrorLabel == [kind |-> "error", a |-> 0, b |-> 0]                  \* '오류'

\* '분석월을 선택해주세요'
SelectMonthMessage == "bunseogworeul seontaekhaejuseyo"

\* the dict of two periods; a key the dict lacks reads as None (dict.get)
Periods(s1, e1, s2, e2, l1, l2) ==
    [error |-> None,
     period1_start |-> Some(s1), period1_end |-> Some(e1),
     period2_start |-> Some(s2), period2_end |-> Some(e2),
     period1_label |-> l1, period2_label |-> l2]

\* the dict that carries the error
PeriodsError ==
    [error |-> Some(SelectMonthMessage),
     period1_start |-> None, period1_end |-> None,
     period2_start |-> None, period2_end |-> None,
     period1_label |-> ErrorLabel, period2_label |-> ErrorLabel]

\* the tail '대비\s*(\d+)<unit>' of the three patterns, from position p: the
\* bounds of the number, or << >>
AfterVersus(t, p, unit) ==
    IF SubAt(t, p, Spell("daebi"))
    THEN NumberThenWord(t, ClassRun(t, RunEnd(t, p + 2, "space") + 1, "digit"), unit)
    ELSE << >>

\* the tail '\s*대비\s*(\d+)<unit>' of the three patterns, from position a:
\* the bounds <<b, e>> of the number, or << >>
VersusTail(t, a, unit) == AfterVersus(t, RunEnd(t, a, "space") + 1, unit)

\* a match that ends one character before position a + 1 (at the 월 or 일
\* after its last number) continued by the tail: the bounds of all numbers
ThenVersus(t, first, unit) ==
    IF first = << >> THEN << >>
    ELSE Joined(first, VersusTail(t, first[Len(first)] + 2, unit))

\* re.search(r'(\d+)월\s*대비\s*(\d+)월', t): <<M1, M2>> of the leftmost match
MonthVsMonth(t) ==
    GroupInts(t, Leftmost([i \in 1 .. Len(t) |->
        ThenVersus(t, NumberThenWord(t, ClassRun(t, i, "digit"), "wol"), "wol")]))

\* (\d+)~(\d+)월: the run of digits r1, when it is not empty, a tilde follows
\* it and a number with 월 follows the tilde
RangeOfMonths(t, r1) ==
    IF r1[2] >= r1[1] /\ SubAt(t, r1[2] + 1, <<"~">>)
    THEN Joined(r1, NumberThenWord(t, ClassRun(t, r1[2] + 2, "digit"), "wol"))
    ELSE << >>

\* re.search(r'(\d+)~(\d+)월\s*대비\s*(\d+)월', t): <<Ma, Mb, Mc>>
RangeVsMonth(t) ==
    GroupInts(t, Leftmost([i \in 1 .. Len(t) |->
        ThenVersus(t, RangeOfMonths(t, ClassRun(t, i, "digit")), "wol")]))

\* the tail '(?:누적\s*)?대비\s*(\d+)일' from position a
CumulativeTail(t, a) ==
    VersusTail(t, IF SubAt(t, a, Spell("nujeok")) THEN a + 2 ELSE a, "il")

\* (\d+)일 continued by '\s*(?:누적\s*)?대비\s*(\d+)일'
ThenCumulativeTail(t, first) ==
    IF first = << >> THEN << >>
    ELSE Joined(first, CumulativeTail(t, RunEnd(t, first[2] + 2, "space") + 1))

\* re.search(r'(\d+)일\s*(?:누적\s*)?대비\s*(\d+)일', t): <<D1, D2>>
DayVsDay(t) ==
    GroupInts(t, Leftmost([i \in 1 .. Len(t) |->
        ThenCumulativeTail(t, NumberThenWord(t, ClassRun(t, i, "digit"), "il"))]))

\* (\d{1,2})월 where r is the run of digits: two digits when 월 follows them,
\* else one; y is where the year starts
OneOrTwoDigits(am, y, r) ==
    IF r[2] >= r[1] + 1 /\ SubAt(am, r[1] + 2, Spell("wol"))
    THEN <<y, y + 3, r[1], r[1] + 1>>
    ELSE IF r[2] >= r[1] /\ SubAt(am, r[1] + 1, Spell("wol"))
    THEN <<y, y + 3, r[1], r[1]>>
    ELSE << >>

\* (\d{4})년\s*(\d{1,2})월 from position i
YearThenMonth(am, i) ==
    IF RunEnd(am, i, "digit") >= i + 3 /\ SubAt(am, i + 4, Spell("nyeon"))
    THEN OneOrTwoDigits(am, i, ClassRun(am, RunEnd(am, i + 5, "space") + 1, "digit"))
    ELSE << >>

\* re.search(r'(\d{4})년\s*(\d{1,2})월', analysis_month): <<year, month>>
YearMonth(am) ==
    GroupInts(am, Leftmost([i \in 1 .. Len(am) |-> YearThenMonth(am, i)]))

Raised == [raised |-> TRUE, value |-> None]
Returns(v) == [raised |-> FALSE, value |-> v]

\* the year of the compared month: 2026 if compare_month <= 3 else 2025
CompareYear(compare_month) == IF compare_month <= 3 THEN 2026 ELSE 2025

\* _extract_comparison_periods, lines 229-250: "12월 대비 1월"
PeriodsPattern1(m) ==
    LET base_month == m[1]
        compare_month == m[2]
        base_year == 2025
        compare_year == CompareYear(compare_month)
    IN  IF MonthRangeRaises(base_month) \/ MonthRangeRaises(compare_month) THEN Raised
        ELSE Returns(Some(Periods(
                 Date(base_year, base_month, 1),
                 Date(base_year, base_month, MonthDays(base_year, base_month)),
                 Date(compare_year, compare_month, 1),
                 Date(compare_year, compare_month, MonthDays(compare_year, compare_month)),
                 MonthLabel(base_month), MonthLabel(compare_month))))

\* _extract_comparison_periods, lines 252-273: "9~12월 대비 1월"
PeriodsPattern2(m) ==
    LET start_month == m[1]
        end_month == m[2]
        compare_month == m[3]
        base_year == 2025
        compare_year == CompareYear(compare_month)
    IN  IF MonthRangeRaises(end_month) \/ MonthRangeRaises(compare_month) THEN Raised
        ELSE Returns(Some(Periods(
                 Date(base_year, start_month, 1),
                 Date(base_year, end_month, MonthDays(base_year, end_month)),
                 Date(compare_year, compare_month, 1),
                 Date(compare_year, compare_month, MonthDays(compare_year, compare_month)),
                 RangeLabel(start_month, end_month), MonthLabel(compare_month))))

\* lines 285-303 with a day past the end of the month clamped to the last day
CumulativePeriods_clamped(year, month, base_day, compare_day) ==
    IF MonthRangeRaises(month) THEN Raised
    ELSE Returns(Some(Periods(
             Date(year, month, 1),
             Date(year, month, Min({base_day, MonthDays(year, month)})),
             Date(year, month, 1),
             Date(year, month, Min({compare_day, MonthDays(year, month)})),
             CumDayLabel(month, base_day), CumDayLabel(month, compare_day))))

\* _extract_comparison_periods, lines 285-303: the cumulative periods of the
\* analysis month
CumulativePeriods(year, month, base_day, compare_day) ==
    IF MonthRangeRaises(month) THEN Raised
    ELSE IF base_day > MonthDays(year, month) \/ compare_day > MonthDays(year, month)
    THEN Returns(None)
    ELSE Returns(Some(Periods(
             Date(year, month, 1), Date(year, month, base_day),
             Date(year, month, 1), Date(year, month, compare_day),
             CumDayLabel(month, base_day), CumDayLabel(month, compare_day))))

\* _extract_comparison_periods, lines 281-303: year_month_match is what the
\* regular expression found in the analysis month
PeriodsOfMonth(d, year_month_match) ==
    IF year_month_match = None THEN Returns(None)
    ELSE CumulativePeriods(Val(year_month_match)[1], Val(year_month_match)[2], d[1], d[2])

\* _extract_comparison_periods, lines 275-310: "2일 누적 대비 5일 누적"; a
\* string is truthy when it is not empty
PeriodsPattern3(d, analysis_month) ==
    IF analysis_month # None /\ Val(analysis_month) # << >>
    THEN PeriodsOfMonth(d, YearMonth(Val(analysis_month)))
    ELSE Returns(Some(PeriodsError))

\* _extract_comparison_periods, lines 229-312: the three patterns are tried
\* in this order, and the first that matched decides
PeriodsOfPatterns(pattern1, pattern2, pattern3, analysis_month) ==
    IF pattern1 # None THEN PeriodsPattern1(Val(pattern1))
    ELSE IF pattern2 # None THEN PeriodsPattern2(Val(pattern2))
    ELSE IF pattern3 # None THEN PeriodsPattern3(Val(pattern3), analysis_month)
    ELSE Returns(None)

\* mutant: the range pattern is tried before the single-month pattern
_extract_comparison_periods_range_first(t, analysis_month) ==
    IF RangeVsMonth(t) # None THEN PeriodsPattern2(Val(RangeVsMonth(t)))
    ELSE IF MonthVsMonth(t) # None THEN PeriodsPattern1(Val(MonthVsMonth(t)))
    ELSE IF DayVsDay(t) # None THEN PeriodsPattern3(Val(DayVsDay(t)), analysis_month)
    ELSE Returns(None)

\* mutant: without an analysis month the day pattern is treated as no match
_extract_comparison_periods_silent(t, analysis_month) ==
    IF MonthVsMonth(t) # None THEN PeriodsPattern1(Val(MonthVsMonth(t)))
    ELSE IF RangeVsMonth(t) # None THEN PeriodsPattern2(Val(RangeVsMonth(t)))
    ELSE IF DayVsDay(t) # None /\ analysis_month # None /\ Val(analysis_month) # << >>
    THEN PeriodsPattern3(Val(DayVsDay(t)), analysis_month)
    ELSE Returns(None)

\* _extract_comparison_periods: [raised, value]; value is None, the dict of
\* two periods or the dict that carries the error
_extract_comparison_periods(t, analysis_month) ==
    PeriodsOfPatterns(MonthVsMonth(t), RangeVsMonth(t), DayVsDay(t), analysis_month)

----------------------------------------------------------------------------
(* Query parser: parse *)

\* a field of an optional value: nps_info['target'] if nps_info else None,
\* period[0] if period else None
Get(optional, key) == IF optional # None THEN Some(Val(optional)[key]) ELSE None

\* min_resp if min_resp is truthy, else the 5 the dict starts with
Or5(x) == IF x # 0 THEN x ELSE 5

\* the filters dict of parse, lines 35-66, from the question t, the values
\* parse extracts before it builds the dict (nps_info, period) and the
\* comparison periods it adds after; analysis_month is a key parse never sets
\* (it reads as None with dict.get) and the caller adds
Filters(t, low, nps_info, period, comparison_periods) ==
    [team |-> _extract_team(t),
     min_responses |-> Or5(_extract_min_responses(t)),
     store_name |-> _extract_store_name(t),
     store_code |-> _extract_store_code(t),
     dealer_code |-> _extract_dealer_code(t),
     dealer_id |-> _extract_dealer_id(t),
     period_start |-> Get(period, 1),
     period_end |-> Get(period, 2),
     comparison_mode |-> _detect_comparison(t),
     trend |-> _detect_trend(t),
     analysis_type |-> _detect_analysis_type(low),
     nps_target |-> Get(nps_info, "target"),
     nps_comparison |-> Get(nps_info, "comparison"),
     senior_threshold |-> _extract_senior_threshold(low),
     comparison_periods |-> comparison_periods,
     analysis_month |-> None]

\* QueryParser.parse on the text t of the question, comparison_periods being
\* what _extract_comparison_periods did: parse raises when it raised
ParseText(t, low, comparison_periods) ==
    IF comparison_periods.raised THEN Raised
    ELSE Returns(Some(Filters(t, low, _extract_nps_target(low), _extract_period(t),
                              comparison_periods.value)))

\* QueryParser.parse: [raised, value]; value is the filters dict, None when
\* the call raised.  analysis_month is read from the dict parse has just
\* built, which has no such key.
parse(q) ==
    LET analysis_month == None
    IN  ParseText(Text(q), Lower(Text(q)),
                  _extract_comparison_periods(Text(q), analysis_month))

\* one entry of the summary: the fixed text of its f-string (label), and the
\* number, the word and the characters formatted into it
SummaryEntry(label, number, word, chars) ==
    [label |-> label, number |-> number, word |-> word, chars |-> chars]

\* get_filter_summary, lines 362-363: f"분석월: {filters['analysis_month']}"
\* if the month is a non-empty string
SummaryMonth(analysis_month) ==
    IF analysis_month # None /\ Val(analysis_month) # << >>
    THEN <<SummaryEntry("bunseogwol", 0, "", Val(analysis_month))>> ELSE << >>

\* lines 365-366: f"팀: {filters['team']}"
SummaryTeam(team) ==
    IF team # None /\ Val(team) # ""
    THEN <<SummaryEntry("tim", 0, Val(team), << >>)>> ELSE << >>

\* lines 369-371: f"NPS 목표: {filters['nps_target']}% {comparison_text}" if
\* the target is truthy, which the number 0 is not
SummaryNpsTarget(nps_target, nps_comparison) ==
    IF nps_target # None /\ Val(nps_target) # 0
    THEN <<SummaryEntry("NPS mokpyo", Val(nps_target),
                        IF nps_comparison = Some("below") THEN "miman" ELSE "isang",
                        << >>)>>
    ELSE << >>

\* lines 374-381: the senior threshold, 'avg', 'below_avg' or 'custom:<n>'
SummarySenior(senior_threshold) ==
    IF senior_threshold = None THEN << >>
    ELSE IF Val(senior_threshold).tag = "avg"
    THEN <<SummaryEntry("sinieo bijung", 0, "pyeonggyun isang", << >>)>>
    ELSE IF Val(senior_threshold).tag = "below_avg"
    THEN <<SummaryEntry("sinieo bijung", 0, "pyeonggyun iha", << >>)>>
    ELSE IF Val(senior_threshold).tag = "custom"
    THEN <<SummaryEntry("sinieo bijung", 0, "isang", Val(senior_threshold).value)>>
    ELSE << >>

\* lines 383-384: f"최소 응답수: {filters['min_responses']}건"
SummaryMinResponses(min_responses) ==
    IF min_responses # 0
    THEN <<SummaryEntry("choeso eungdapsu", min_responses, "geon", << >>)>> ELSE << >>

\* lines 386-387: f"매장: {filters['store_name']}"
SummaryStore(store_name) ==
    IF store_name # None /\ Val(store_name) # << >>
    THEN <<SummaryEntry("maejang", 0, "", Val(store_name))>> ELSE << >>

\* lines 390-396: type_names
type_names(analysis_type) ==
    CASE analysis_type = "senior_gap" -> "sinieo GAP bunseok"            \* 시니어 GAP 분석
      [] analysis_type = "period_comparison" -> "giganbyeol bigyo"       \* 기간별 비교
      [] analysis_type = "simple_filter" -> "dansun pilteo bunseok"      \* 단순 필터 분석
      [] analysis_type = "store_analysis" -> "maejang bunseok"           \* 매장 분석
      [] analysis_type = "general" -> "ilban bunseok"                    \* 일반 분석

\* lines 389-397: f"분석 유형: {type_names[filters['analysis_type']]}"
SummaryType(analysis_type) ==
    IF analysis_type # ""
    THEN <<SummaryEntry("bunseok yuhyeong", 0, type_names(analysis_type), << >>)>>
    ELSE << >>

\* QueryParser.get_filter_summary: the entries that ' | ' joins, in order, or
\* "조건 없음" when there is none
get_filter_summary(filters) ==
    LET summary == SummaryMonth(filters.analysis_month)
                   \o SummaryTeam(filters.team)
                   \o SummaryNpsTarget(filters.nps_target, filters.nps_comparison)
                   \o SummarySenior(filters.senior_threshold)
                   \o SummaryMinResponses(filters.min_responses)
                   \o SummaryStore(filters.store_name)
                   \o SummaryType(filters.analysis_type)
    IN  IF summary # << >> THEN summary
        ELSE <<SummaryEntry("jogeon eopseum", 0, "", << >>)>>

----------------------------------------------------------------------------
(* NPS metric *)

\* mutant: the result is truncated toward minus infinity instead of rounded
PC_calculate_nps_floor(sc) ==
    LET total == Len(sc) IN
    IF total = 0 THEN 0
    ELSE FloorDiv((CountIf(sc, IsPromoter) - CountIf(sc, IsDetractor)) * 10000, total)

\* PeriodComparisonAnalyzer._calculate_nps, in hundredths
PC_calculate_nps(sc) ==
    LET total == Len(sc) IN
    IF total = 0 THEN 0
    ELSE LET promoters  == CountIf(sc, IsPromoter)
             detractors == CountIf(sc, IsDetractor)
         IN  FRound2(FPercent(promoters - detractors, total))

\* SeniorGapAnalyzer._calculate_nps, in hundredths
SG_calculate_nps(sc) ==
    LET total == Len(sc) IN
    IF total = 0 THEN 0
    ELSE LET promoters  == CountIf(sc, IsPromoter)
             detractors == CountIf(sc, IsDetractor)
         IN  FRound2(FPercent(promoters - detractors, total))

----------------------------------------------------------------------------
(* The dataset.  A row is one survey response:                             *)
(*   agent  the T-crew member: the pair (담당자, 담당자ID), a number so     *)
(*          that groupby's ascending order of the keys is the order of     *)
(*          the numbers                                                    *)
(*   team   마케팅팀명                                                      *)
(*   store  the pair (대리점명, 매장명)                                     *)
(*   date   처리일, once pd.to_datetime has read its YYYYMMDD text          *)
(*   senior 시니어여부 = 'Y'                                                *)
(*   score  추천지수                                                        *)

\* a <= b for calendar dates
DateLE(a, b) ==
    \/ a.y < b.y
    \/ a.y = b.y /\ (a.m < b.m \/ (a.m = b.m /\ a.d <= b.d))

\* pd.Timestamp('YYYY-MM-DD') raises unless the text names a calendar date
ValidDate(x) == x.m \in 1 .. 12 /\ x.d \in 1 .. MonthDays(x.y, x.m)

\* frame[column] for the score column
ScoreColumn(frame) == [i \in 1 .. Len(frame) |-> frame[i].score]

\* the keys of df.groupby(['담당자', '담당자ID']), in groupby's ascending order
GroupKeys(frame) ==
    LET keys == {frame[i].agent : i \in 1 .. Len(frame)}
    IN  [p \in 1 .. Cardinality(keys) |->
            CHOOSE a \in keys : Cardinality({b \in keys : b < a}) = p - 1]

\* DataFrame.sort_values: Before(a, b) when row a sorts strictly before row
\* b; rows neither before the other keep their order (the sort is an
\* insertion sort on frames this small)
SortRows(frame, Before(_, _)) ==
    LET n == Len(frame)
        Pos(i) == 1 + Cardinality({j \in 1 .. n :
                          \/ Before(frame[j], frame[i])
                          \/ ~Before(frame[i], frame[j]) /\ j < i})
    IN  [p \in 1 .. n |-> frame[CHOOSE i \in 1 .. n : Pos(i) = p]]

----------------------------------------------------------------------------
(* Period comparison analyzer (src/analyzers/period_comparison.py) *)

\* _aggregate_by_tcrew: one row per agent, the store that of the agent's
\* first row in the frame (iloc[0])
PC_aggregate_by_tcrew(frame) ==
    LET keys == GroupKeys(frame)
    IN  [k \in 1 .. Len(keys) |->
            LET group == SelectSeq(frame, LAMBDA r : r.agent = keys[k])
            IN  [agent |-> keys[k],
                 store |-> group[1].store,
                 total |-> Len(group),
                 nps |-> PC_calculate_nps(ScoreColumn(group))]]

\* the rows of the frame dated within start .. end (lines 109-117)
RowsWithin(frame, start, end) ==
    SelectSeq(frame, LAMBDA r : DateLE(start, r.date) /\ DateLE(r.date, end))

\* pd.merge(period1_stats, period2_stats, on=[담당자, 담당자ID, 대리점명,
\* 매장명], how='inner') with NPS증감_value added (lines 184-215)
PC_merge(period1_stats, period2_stats) ==
    LET Matches(l, r) == l.agent = r.agent /\ l.store = r.store
        left == SelectSeq(period1_stats, LAMBDA l :
                    \E j \in 1 .. Len(period2_stats) : Matches(l, period2_stats[j]))
    IN  [k \in 1 .. Len(left) |->
            LET l == left[k]
                r == period2_stats[CHOOSE j \in 1 .. Len(period2_stats) :
                                       Matches(l, period2_stats[j])]
            IN  [agent |-> l.agent, store |-> l.store,
                 base_nps |-> l.nps, base_count |-> l.total,
                 compare_nps |-> r.nps, compare_count |-> r.total,
                 change |-> r.nps - l.nps]]

\* NPS증감_value, the float64 difference of the two NPS values (lines 215
\* and 448); the rows carry it rounded to hundredths as change, which has
\* its sign
PC_change_value(r) == FSub(FOfHundredths(r.compare_nps), FOfHundredths(r.base_nps))

\* the order of two rows by NPS증감_value and by its absolute value
PC_change_less(a, b) == FCmp(PC_change_value(a), PC_change_value(b)) < 0
PC_abs_change_less(a, b) ==
    FCmp(FAbs(PC_change_value(a)), FAbs(PC_change_value(b))) < 0

\* what analyze returns: the per-agent table by_tcrew and the branch taken
PC_Result(outcome, by_tcrew) ==
    [raised |-> FALSE, outcome |-> outcome, by_tcrew |-> by_tcrew]
PC_Raised == [raised |-> TRUE, outcome |-> "raised", by_tcrew |-> << >>]

\* mutant: the two periods are joined with how='left'
PC_filter_and_sort_left_join(period1_stats, period2_stats, filters) ==
    [k \in 1 .. Len(period1_stats) |->
        LET l == period1_stats[k]
        IN  [agent |-> l.agent, store |-> l.store,
             base_nps |-> l.nps, base_count |-> l.total,
             compare_nps |-> 0, compare_count |-> 0, change |-> 0]]

\* mutant: with no trend the rows are sorted by descending change, not by
\* descending absolute change
PC_filter_and_sort_signed(period1_stats, period2_stats, filters) ==
    LET trend == filters.trend
        merged == PC_merge(period1_stats, period2_stats)
        by_trend ==
            IF trend = Some("decrease")
            THEN SelectSeq(merged, LAMBDA r : r.change < 0)
            ELSE IF trend = Some("increase")
            THEN SelectSeq(merged, LAMBDA r : r.change > 0)
            ELSE merged
        by_target ==
            IF filters.nps_target # None
            THEN IF filters.nps_comparison = "below"
                 THEN SelectSeq(by_trend, LAMBDA r :
                          r.compare_nps < Val(filters.nps_target) * 100)
                 ELSE SelectSeq(by_trend, LAMBDA r :
                          r.compare_nps >= Val(filters.nps_target) * 100)
            ELSE by_trend
        by_floor ==
            SelectSeq(by_target, LAMBDA r :
                /\ r.base_count >= filters.min_responses_period1
                /\ r.compare_count >= filters.min_responses_period2)
    IN  IF trend = Some("decrease")
        THEN SortRows(by_floor, LAMBDA a, b : PC_change_less(a, b))
        ELSE SortRows(by_floor, LAMBDA a, b : PC_change_less(b, a))

\* analyze, lines 184-259: the join, the trend, NPS target and minimum
\* response filters, and the sort
PC_filter_and_sort(period1_stats, period2_stats, filters) ==
    LET trend == filters.trend
        merged == PC_merge(period1_stats, period2_stats)
        by_trend ==
            IF trend = Some("decrease")
            THEN SelectSeq(merged, LAMBDA r : r.change < 0)
            ELSE IF trend = Some("increase")
            THEN SelectSeq(merged, LAMBDA r : r.change > 0)
            ELSE merged
        by_target ==
            IF filters.nps_target # None
            THEN IF filters.nps_comparison = "below"
                 THEN SelectSeq(by_trend, LAMBDA r :
                          r.compare_nps < Val(filters.nps_target) * 100)
                 ELSE SelectSeq(by_trend, LAMBDA r :
                          r.compare_nps >= Val(filters.nps_target) * 100)
            ELSE by_trend
        by_floor ==
            SelectSeq(by_target, LAMBDA r :
                /\ r.base_count >= filters.min_responses_period1
                /\ r.compare_count >= filters.min_responses_period2)
    IN  IF trend = Some("decrease")
        THEN SortRows(by_floor, LAMBDA a, b : PC_change_less(a, b))
        ELSE IF trend = Some("increase")
        THEN SortRows(by_floor, LAMBDA a, b : PC_change_less(b, a))
        ELSE SortRows(by_floor, LAMBDA a, b : PC_abs_change_less(b, a))

\* the (team, store) keys of a frame in groupby's ascending order; the team
\* and store names of the datasets are "T1" < "T2" and "S1" < "S2"
StoreKeys(frame) ==
    SelectSeq(<<<<"T1", "S1">>, <<"T1", "S2">>, <<"T2", "S1">>, <<"T2", "S2">>>>,
              LAMBDA k : \E i \in 1 .. Len(frame) :
                             frame[i].team = k[1] /\ frame[i].store = k[2])

\* _analyze_by_store, lines 396-428: one row per (team, dealer, store) of the
\* rows of a period
PC_aggregate_by_store(frame) ==
    LET keys == StoreKeys(frame)
    IN  [k \in 1 .. Len(keys) |->
            LET group == SelectSeq(frame, LAMBDA r :
                             r.team = keys[k][1] /\ r.store = keys[k][2])
            IN  [team |-> keys[k][1], store |-> keys[k][2],
                 total |-> Len(group),
                 nps |-> PC_calculate_nps(ScoreColumn(group))]]

\* _analyze_by_store, lines 431-447: the inner join of the two periods on
\* (team, dealer, store), with NPS증감_value added
PC_store_merge(period1_store, period2_store) ==
    LET Matches(l, r) == l.team = r.team /\ l.store = r.store
        left == SelectSeq(period1_store, LAMBDA l :
                    \E j \in 1 .. Len(period2_store) : Matches(l, period2_store[j]))
    IN  [k \in 1 .. Len(left) |->
            LET l == left[k]
                r == period2_store[CHOOSE j \in 1 .. Len(period2_store) :
                                       Matches(l, period2_store[j])]
            IN  [team |-> l.team, store |-> l.store,
                 base_nps |-> l.nps, base_count |-> l.total,
                 compare_nps |-> r.nps, compare_count |-> r.total,
                 change |-> r.nps - l.nps]]

\* mutant: the trend filter of the by-store table keeps the rows without a
\* change as well
PC_store_filter_and_sort_keeps_zero(merged, filters, trend) ==
    LET by_trend ==
            IF trend = Some("decrease")
            THEN SelectSeq(merged, LAMBDA r : r.change <= 0)
            ELSE IF trend = Some("increase")
            THEN SelectSeq(merged, LAMBDA r : r.change >= 0)
            ELSE merged
        by_target ==
            IF filters.nps_target # None
            THEN IF filters.nps_comparison = "below"
                 THEN SelectSeq(by_trend, LAMBDA r :
                          r.compare_nps < Val(filters.nps_target) * 100)
                 ELSE SelectSeq(by_trend, LAMBDA r :
                          r.compare_nps >= Val(filters.nps_target) * 100)
            ELSE by_trend
        by_floor ==
            SelectSeq(by_target, LAMBDA r :
                /\ r.base_count >= filters.min_responses_period1
                /\ r.compare_count >= filters.min_responses_period2)
    IN  IF trend = Some("decrease")
        THEN SortRows(by_floor, LAMBDA a, b : PC_change_less(a, b))
        ELSE IF trend = Some("increase")
        THEN SortRows(by_floor, LAMBDA a, b : PC_change_less(b, a))
        ELSE SortRows(by_floor, LAMBDA a, b : PC_abs_change_less(b, a))

\* _analyze_by_store, lines 452-484: the trend, NPS target and minimum
\* response filters, and the sort
PC_store_filter_and_sort(merged, filters, trend) ==
    LET by_trend ==
            IF trend = Some("decrease")
            THEN SelectSeq(merged, LAMBDA r : r.change < 0)
            ELSE IF trend = Some("increase")
            THEN SelectSeq(merged, LAMBDA r : r.change > 0)
            ELSE merged
        by_target ==
            IF filters.nps_target # None
            THEN IF filters.nps_comparison = "below"
                 THEN SelectSeq(by_trend, LAMBDA r :
                          r.compare_nps < Val(filters.nps_target) * 100)
                 ELSE SelectSeq(by_trend, LAMBDA r :
                          r.compare_nps >= Val(filters.nps_target) * 100)
            ELSE by_trend
        by_floor ==
            SelectSeq(by_target, LAMBDA r :
                /\ r.base_count >= filters.min_responses_period1
                /\ r.compare_count >= filters.min_responses_period2)
    IN  IF trend = Some("decrease")
        THEN SortRows(by_floor, LAMBDA a, b : PC_change_less(a, b))
        ELSE IF trend = Some("increase")
        THEN SortRows(by_floor, LAMBDA a, b : PC_change_less(b, a))
        ELSE SortRows(by_floor, LAMBDA a, b : PC_abs_change_less(b, a))

\* PeriodComparisonAnalyzer._analyze_by_store
PC_analyze_by_store(df_period1, df_period2, filters, trend) ==
    IF Len(PC_aggregate_by_store(df_period1)) = 0 THEN << >>
    ELSE IF Len(PC_aggregate_by_store(df_period2)) = 0 THEN << >>
    ELSE IF Len(PC_store_merge(PC_aggregate_by_store(df_period1),
                               PC_aggregate_by_store(df_period2))) = 0 THEN << >>
    ELSE PC_store_filter_and_sort(
             PC_store_merge(PC_aggregate_by_store(df_period1),
                            PC_aggregate_by_store(df_period2)), filters, trend)

\* the periods compared: those of the question, or September-December 2025
\* against January 2026 (lines 92-107)
PC_periods(comparison_periods) ==
    IF comparison_periods # None
    THEN [period1_start |-> Val(Val(comparison_periods).period1_start),
          period1_end |-> Val(Val(comparison_periods).period1_end),
          period2_start |-> Val(Val(comparison_periods).period2_start),
          period2_end |-> Val(Val(comparison_periods).period2_end)]
    ELSE [period1_start |-> Date(2025, 9, 1), period1_end |-> Date(2025, 12, 31),
          period2_start |-> Date(2026, 1, 1), period2_end |-> Date(2026, 1, 31)]

\* PeriodComparisonAnalyzer.analyze on a frame that has the 처리일 column
PC_analyze(frame, filters) ==
    LET comparison_periods == filters.comparison_periods
    IN  IF comparison_periods # None /\ Val(comparison_periods).error # None
        THEN PC_Result("select_month", << >>)
        ELSE
        LET p == PC_periods(comparison_periods)
        IN  IF \E x \in {p.period1_start, p.period1_end, p.period2_start, p.period2_end} :
                   ~ValidDate(x)
            THEN PC_Raised
            ELSE
            LET df_period1 == RowsWithin(frame, p.period1_start, p.period1_end)
                df_period2 == RowsWithin(frame, p.period2_start, p.period2_end)
                period1_stats == PC_aggregate_by_tcrew(df_period1)
                period2_stats == PC_aggregate_by_tcrew(df_period2)
            IN  IF Len(period1_stats) = 0 THEN PC_Result("no_period1", << >>)
                ELSE IF Len(period2_stats) = 0 THEN PC_Result("no_period2", << >>)
                ELSE IF Len(PC_merge(period1_stats, period2_stats)) = 0
                THEN PC_Result("no_common", << >>)
                ELSE PC_Result("ok",
                         PC_filter_and_sort(period1_stats, period2_stats, filters))

\* analyze, line 278: the by-store table of the final return, of the rows of
\* the two periods
PC_result_store(frame, filters, p) ==
    PC_analyze_by_store(RowsWithin(frame, p.period1_start, p.period1_end),
                        RowsWithin(frame, p.period2_start, p.period2_end),
                        filters, filters.trend)

\* the by_store of the dict analyze returns: every return but the last has
\* an empty frame
PC_by_store(frame, filters) ==
    IF PC_analyze(frame, filters).outcome = "ok"
    THEN PC_result_store(frame, filters, PC_periods(filters.comparison_periods))
    ELSE << >>

----------------------------------------------------------------------------
(* Senior gap analyzer (src/analyzers/senior_gap.py).  A proportion is     *)
(* carried as the pair of its counts, [senior, total]; two proportions     *)
(* computed as count / count * 100 are compared by cross-multiplication,   *)
(* which orders them as their doubles are ordered while the counts are     *)
(* below 2^15.  A senior NPS is carried in tenths of a point, the          *)
(* resolution of the text column it is read back from.                     *)

\* the selectbox value '전체' of the analysis month
AllMonths == [y |-> 0, m |-> 0]

\* f"{nps:.1f}%" of the value _calculate_nps returned, in tenths
NpsText(nps) == FFmt1(FOfHundredths(nps))

\* f"{senior_rate:.1f}%" of senior_rate = senior / total * 100, in tenths
RateText(senior, total) == FFmt1(FPercent(senior, total))

\* f"{senior_nps:.1f}%" read back with rstrip('%').astype(float): tenths
SeniorNpsText(nps) == NpsText(nps)

\* a.senior / a.total * 100 >= b.senior / b.total * 100
RateGE(a, b) == a.senior * b.total >= b.senior * a.total

\* filters.get('dealer_name'): None for a dict without the key
SG_dealer_name(filters) ==
    IF "dealer_name" \in DOMAIN filters THEN filters.dealer_name ELSE None

\* analyze, lines 73-97: the rows within the scope of the filters; the
\* column 대리점명 is the field dealer of the rows, read only under a dealer
\* filter
SG_scope(frame, filters) ==
    LET by_month ==
            IF filters.analysis_month # None /\ Val(filters.analysis_month) # AllMonths
            THEN SelectSeq(frame, LAMBDA r :
                     [y |-> r.date.y, m |-> r.date.m] = Val(filters.analysis_month))
            ELSE frame
        by_team ==
            IF filters.team # None
            THEN SelectSeq(by_month, LAMBDA r : r.team = Val(filters.team))
            ELSE by_month
        by_dealer ==
            IF SG_dealer_name(filters) # None
            THEN SelectSeq(by_team, LAMBDA r : r.dealer = Val(SG_dealer_name(filters)))
            ELSE by_team
    IN  IF filters.store_name # None
        THEN SelectSeq(by_dealer, LAMBDA r : r.store = Val(filters.store_name))
        ELSE by_dealer

\* analyze, lines 99-139: one row per agent
SG_tcrew_stats(df_filtered) ==
    LET keys == GroupKeys(df_filtered)
    IN  [k \in 1 .. Len(keys) |->
            LET group == SelectSeq(df_filtered, LAMBDA r : r.agent = keys[k])
                senior_data == SelectSeq(group, LAMBDA r : r.senior)
            IN  [agent |-> keys[k],
                 store |-> group[1].store,
                 total |-> Len(group),
                 senior |-> Len(senior_data),
                 nps |-> SG_calculate_nps(ScoreColumn(group)),
                 senior_nps |-> IF Len(senior_data) > 0
                                THEN SeniorNpsText(SG_calculate_nps(ScoreColumn(senior_data)))
                                ELSE 0]]

\* mutant: the senior proportion of the agents that meet the response floor
SG_avg_senior_rate_after_floor(df_filtered, filters) ==
    LET kept == SelectSeq(df_filtered, LAMBDA r :
                    Len(SelectSeq(df_filtered, LAMBDA x : x.agent = r.agent))
                        >= filters.min_responses)
    IN  IF Len(kept) = 0 THEN [senior |-> 0, total |-> 1]
        ELSE [senior |-> Len(SelectSeq(kept, LAMBDA r : r.senior)),
              total |-> Len(kept)]

\* analyze, lines 153-156: the senior proportion of the scoped dataset
SG_avg_senior_rate(df_filtered, filters) ==
    [senior |-> Len(SelectSeq(df_filtered, LAMBDA r : r.senior)),
     total |-> Len(df_filtered)]

\* the doubles of a Series added one after the other, from acc on
RECURSIVE FSumFrom(_, _)
FSumFrom(acc, a) == IF a = << >> THEN acc ELSE FSumFrom(FAdd(acc, Head(a)), Tail(a))

\* the elements of a at positions j, j + 8, j + 16, ... up to position m
SeriesLane(a, j, m) == [k \in 1 .. (m - j) \div 8 + 1 |-> a[j + 8 * (k - 1)]]

\* a with its length rounded down to a multiple of eight, summed in eight
\* lanes that are then added in pairs
FSumLanes(a, m) ==
    FAdd(FAdd(FAdd(FSumFrom(a[1], Tail(SeriesLane(a, 1, m))),
                   FSumFrom(a[2], Tail(SeriesLane(a, 2, m)))),
              FAdd(FSumFrom(a[3], Tail(SeriesLane(a, 3, m))),
                   FSumFrom(a[4], Tail(SeriesLane(a, 4, m))))),
         FAdd(FAdd(FSumFrom(a[5], Tail(SeriesLane(a, 5, m))),
                   FSumFrom(a[6], Tail(SeriesLane(a, 6, m)))),
              FAdd(FSumFrom(a[7], Tail(SeriesLane(a, 7, m))),
                   FSumFrom(a[8], Tail(SeriesLane(a, 8, m))))))

\* n rounded down to a multiple of eight
FloorTo8(n) == n - (n % 8)

\* numpy's sum of a float64 array, which Series.mean divides by the length:
\* fewer than 8 elements are added one after the other, up to 128 in eight
\* lanes and then the remaining ones, more by halves
RECURSIVE FSum(_)
FSum(a) ==
    IF Len(a) < 8 THEN FSumFrom(FZero, a)
    ELSE IF Len(a) <= 128
    THEN FSumFrom(FSumLanes(a, FloorTo8(Len(a))), SubSeq(a, FloorTo8(Len(a)) + 1, Len(a)))
    ELSE FAdd(FSum(SubSeq(a, 1, FloorTo8(Len(a) \div 2))),
              FSum(SubSeq(a, FloorTo8(Len(a) \div 2) + 1, Len(a))))

\* Series.mean() of a non-empty float64 Series
FMean(a) == FDivSmall(FSum(a), Len(a))

\* the 시니어NPS column read back as float64
SeniorNpsValues(tcrew_stats) ==
    [k \in 1 .. Len(tcrew_stats) |-> FOfTenths(tcrew_stats[k].senior_nps)]

\* analyze, lines 161-168: the mean senior NPS of the agents with a senior
\* response, a double
SG_avg_senior_nps(tcrew_stats) ==
    IF Len(SelectSeq(tcrew_stats, LAMBDA r : r.senior > 0)) > 0
    THEN FMean(SeniorNpsValues(SelectSeq(tcrew_stats, LAMBDA r : r.senior > 0)))
    ELSE FZero

\* analyze, lines 173-189: the senior proportion filter
SG_senior_filter(result, avg_senior_rate, senior_threshold) ==
    IF senior_threshold # None
    THEN IF Val(senior_threshold).tag = "avg"
         THEN SelectSeq(result, LAMBDA r : RateGE(r, avg_senior_rate))
         ELSE IF Val(senior_threshold).tag = "below_avg"
         THEN SelectSeq(result, LAMBDA r : ~RateGE(r, avg_senior_rate))
         ELSE LET digits == Val(senior_threshold).value
                  custom_value == ToInt(digits, 1, Len(digits))
              IN  SelectSeq(result, LAMBDA r :
                      FCmp(FPercent(r.senior, r.total), FOfInt(custom_value)) >= 0)
    ELSE SelectSeq(result, LAMBDA r : RateGE(r, avg_senior_rate))

\* analyze, lines 191-197: the senior NPS filter
SG_senior_nps_filter(result, avg_senior_nps) ==
    IF Len(result) > 0
    THEN SelectSeq(result, LAMBDA r :
             r.senior > 0 /\ FCmp(FOfTenths(r.senior_nps), avg_senior_nps) < 0)
    ELSE result

\* analyze, lines 191-222: the senior NPS, NPS target, minimum response and
\* minimum senior response filters, and the sort
SG_later_filters(result, avg_senior_nps, filters) ==
    LET by_senior_nps == SG_senior_nps_filter(result, avg_senior_nps)
        by_target ==
            IF filters.nps_target # None
            THEN IF filters.nps_comparison = "below"
                 THEN SelectSeq(by_senior_nps, LAMBDA r : r.nps < Val(filters.nps_target) * 100)
                 ELSE SelectSeq(by_senior_nps, LAMBDA r : r.nps >= Val(filters.nps_target) * 100)
            ELSE SelectSeq(by_senior_nps, LAMBDA r : r.nps < DefaultNpsTarget * 100)
        by_floor == SelectSeq(by_target, LAMBDA r : r.total >= filters.min_responses)
        by_senior == SelectSeq(by_floor, LAMBDA r : r.senior >= 1)
    IN  SortRows(by_senior, LAMBDA a, b :
            \/ a.senior * b.total > b.senior * a.total
            \/ a.senior * b.total = b.senior * a.total /\ a.nps < b.nps)

\* SeniorGapAnalyzer.analyze: the per-agent table by_tcrew, the baseline
\* the summary reports, and the table after the senior proportion filter
\* and after the senior NPS filter
SG_analyze(frame, filters) ==
    LET df_filtered == SG_scope(frame, filters)
        tcrew_stats == SG_tcrew_stats(df_filtered)
    IN  IF Len(tcrew_stats) = 0
        THEN [outcome |-> "no_data", by_tcrew |-> << >>, after_senior_filter |-> << >>,
              after_senior_nps_filter |-> << >>,
              avg_senior_rate |-> [senior |-> 0, total |-> 0]]
        ELSE LET avg_senior_rate == SG_avg_senior_rate(df_filtered, filters)
                 avg_senior_nps == SG_avg_senior_nps(tcrew_stats)
                 after_senior_filter ==
                     SG_senior_filter(tcrew_stats, avg_senior_rate, filters.senior_threshold)
             IN  [outcome |-> "ok",
                  by_tcrew |-> SG_later_filters(after_senior_filter, avg_senior_nps, filters),
                  after_senior_filter |-> after_senior_filter,
                  after_senior_nps_filter |->
                      SG_senior_nps_filter(after_senior_filter, avg_senior_nps),
                  avg_senior_rate |-> avg_senior_rate]

\* _get_store_tcrew_detail, lines 474-502: the rows of one store, one per
\* agent in groupby's order; NPS, senior proportion and senior NPS are texts
\* of one decimal, carried in tenths
SG_store_detail_rows(df_satisfied, store_name) ==
    LET store_rows == SelectSeq(df_satisfied, LAMBDA r : r.store = store_name)
        agents == GroupKeys(store_rows)
    IN  [k \in 1 .. Len(agents) |->
            LET group == SelectSeq(store_rows, LAMBDA r : r.agent = agents[k])
                senior_data == SelectSeq(group, LAMBDA r : r.senior)
            IN  [agent |-> agents[k],
                 count |-> Len(group),
                 promoters |-> CountIf(ScoreColumn(group), IsPromoter),
                 detractors |-> CountIf(ScoreColumn(group), IsDetractor),
                 senior |-> Len(senior_data),
                 nps_text |-> NpsText(SG_calculate_nps(ScoreColumn(group))),
                 senior_rate_text |-> RateText(Len(senior_data), Len(group)),
                 senior_nps_text |->
                     IF Len(senior_data) > 0
                     THEN NpsText(SG_calculate_nps(ScoreColumn(senior_data)))
                     ELSE 0]]

\* SeniorGapAnalyzer._get_store_tcrew_detail: for each store of the agents
\* of result_tcrew, in ascending order of the store names "S1" < "S2", the
\* rows of its agents sorted by NPS, the lowest first; {} when no response
\* is left
SG_get_store_tcrew_detail(df_filtered, result_tcrew) ==
    LET df_satisfied ==
            SelectSeq(df_filtered, LAMBDA r :
                \E k \in 1 .. Len(result_tcrew) : result_tcrew[k].agent = r.agent)
        stores == SelectSeq(<<"S1", "S2">>, LAMBDA x :
                      \E i \in 1 .. Len(df_satisfied) : df_satisfied[i].store = x)
    IN  [k \in 1 .. Len(stores) |->
            [store |-> stores[k],
             rows |-> SortRows(SG_store_detail_rows(df_satisfied, stores[k]),
                               LAMBDA a, b : a.nps_text < b.nps_text)]]

\* analyze, line 240: the detail of the dict returned, of the scoped data
\* and the per-agent table
SG_store_tcrew_detail(frame, filters) ==
    SG_get_store_tcrew_detail(SG_scope(frame, filters), SG_analyze(frame, filters).by_tcrew)

----------------------------------------------------------------------------
(* Simple filter analyzer (src/analyzers/simple_filter.py).  Its rows carry *)
(* the team (마케팅팀명), the dealer (대리점명), the store (매장명) and the   *)
(* agent (담당자) as numbers in the ascending order of their names; an NPS, *)
(* a share and a difference are carried in tenths of a point, the          *)
(* resolution round(1) leaves: the double x / 10 is carried as x.          *)

\* a sorts before b: two tuples of numbers compared column by column
RECURSIVE TupleLess(_, _)
TupleLess(a, b) ==
    IF a = << >> THEN FALSE
    ELSE Head(a) < Head(b) \/ (Head(a) = Head(b) /\ TupleLess(Tail(a), Tail(b)))

\* the keys of a groupby, in groupby's ascending order
SortedKeys(keys) ==
    [p \in 1 .. Cardinality(keys) |->
        CHOOSE a \in keys : Cardinality({b \in keys : TupleLess(b, a)}) = p - 1]

\* the columns 추천고객 and 비추천고객 summed over a group
SFA_promoters(group) == CountIf(ScoreColumn(group), IsPromoter)
SFA_detractors(group) == CountIf(ScoreColumn(group), IsDetractor)

\* Series.round(1) of a float64 Series, which is rint(x * 10) / 10 for each
\* element x; the result is carried as the integer rint(x * 10)
FRound1(x) == FRint(FMulSmall(x, 10))

\* ((추천고객 - 비추천고객) / 응답수 * 100).round(1), in tenths
SFA_nps_value(group) ==
    FRound1(FPercent(SFA_promoters(group) - SFA_detractors(group), Len(group)))

\* round(x, 1) of a Python float: the decimal of one place nearest to the
\* exact value of the double, ties to even, carried in tenths (the rounding
\* of the text f"{x:.1f}")
PyRound1(x) == FFmt1(x)

\* round(응답수 / store_total * 100, 1), in tenths.  The row of apply(axis=1)
\* is an object Series and store_total a dict of to_dict: the operands are
\* Python ints, the quotient a Python float and round the builtin
SFA_share(count, store_total) == PyRound1(FPercent(count, store_total))

\* (NPS_value - store_nps).round(1), in tenths: store_nps is the unrounded
\* (promoters - detractors) / len * 100 of the store (lines 183-185)
SFA_vs_store(nps_value, store_rows) ==
    FRound1(FSub(FOfTenths(nps_value),
                 FPercent(SFA_promoters(store_rows) - SFA_detractors(store_rows),
                          Len(store_rows))))

\* the column NPS(%): f"{x}%", the shortest text that reads back as x
SFA_nps_text(nps_value) == [number |-> nps_value, suffix |-> "%"]

\* str.rstrip('%').astype(float)
SFA_nps_numeric(text) == text.number

\* filters.get('min_responses_period1', 5)
SFA_min_responses(filters) ==
    IF filters.min_responses_period1 # None
    THEN Val(filters.min_responses_period1) ELSE 5

\* mutant: 'above' keeps the rows strictly above the target
SFA_filter_and_sort_strict_above(grouped, filters) ==
    LET by_floor == SelectSeq(grouped, LAMBDA r : r.count >= SFA_min_responses(filters))
        by_target ==
            IF filters.nps_target # None
            THEN IF filters.nps_comparison = "below"
                 THEN SelectSeq(by_floor, LAMBDA r : r.nps < Val(filters.nps_target) * 10)
                 ELSE IF filters.nps_comparison = "above"
                 THEN SelectSeq(by_floor, LAMBDA r : r.nps > Val(filters.nps_target) * 10)
                 ELSE by_floor
            ELSE by_floor
    IN  SortRows(by_target, LAMBDA a, b :
            TupleLess(<<a.team, a.dealer, a.store, a.nps>>,
                      <<b.team, b.dealer, b.store, b.nps>>))

\* lines 89-107 and 138-156: the minimum response filter, the NPS target
\* filter and the sort by team, dealer, store and NPS
SFA_filter_and_sort(grouped, filters) ==
    LET by_floor == SelectSeq(grouped, LAMBDA r : r.count >= SFA_min_responses(filters))
        by_target ==
            IF filters.nps_target # None
            THEN IF filters.nps_comparison = "below"
                 THEN SelectSeq(by_floor, LAMBDA r : r.nps < Val(filters.nps_target) * 10)
                 ELSE IF filters.nps_comparison = "above"
                 THEN SelectSeq(by_floor, LAMBDA r : r.nps >= Val(filters.nps_target) * 10)
                 ELSE by_floor
            ELSE by_floor
    IN  SortRows(by_target, LAMBDA a, b :
            TupleLess(<<a.team, a.dealer, a.store, a.nps>>,
                      <<b.team, b.dealer, b.store, b.nps>>))

\* _analyze_by_tcrew, lines 59-87: one row per (team, dealer, store, agent)
SFA_tcrew_groups(frame) ==
    LET keys == SortedKeys({<<frame[i].team, frame[i].dealer, frame[i].store,
                              frame[i].agent>> : i \in 1 .. Len(frame)})
    IN  [k \in 1 .. Len(keys) |->
            LET group == SelectSeq(frame, LAMBDA r :
                             <<r.team, r.dealer, r.store, r.agent>> = keys[k])
                store_total == Len(SelectSeq(frame, LAMBDA r :
                             <<r.team, r.dealer, r.store>> = SubSeq(keys[k], 1, 3)))
            IN  [team |-> keys[k][1], dealer |-> keys[k][2], store |-> keys[k][3],
                 agent |-> keys[k][4],
                 count |-> Len(group),
                 nps |-> SFA_nps_value(group),
                 share |-> SFA_share(Len(group), store_total)]]

\* _analyze_by_tcrew: the table shown (NPS as text) and the NPS values
SFA_analyze_by_tcrew(frame, filters) ==
    LET grouped == SFA_filter_and_sort(SFA_tcrew_groups(frame), filters)
    IN  [result |-> [k \in 1 .. Len(grouped) |->
                        [team |-> grouped[k].team, dealer |-> grouped[k].dealer,
                         store |-> grouped[k].store, agent |-> grouped[k].agent,
                         nps_text |-> SFA_nps_text(grouped[k].nps),
                         count |-> grouped[k].count, share |-> grouped[k].share]],
         nps_values |-> [k \in 1 .. Len(grouped) |-> grouped[k].nps]]

\* _analyze_by_store, lines 119-136: one row per (team, dealer, store)
SFA_store_groups(frame) ==
    LET keys == SortedKeys({<<frame[i].team, frame[i].dealer, frame[i].store>> :
                              i \in 1 .. Len(frame)})
    IN  [k \in 1 .. Len(keys) |->
            LET group == SelectSeq(frame, LAMBDA r :
                             <<r.team, r.dealer, r.store>> = keys[k])
            IN  [team |-> keys[k][1], dealer |-> keys[k][2], store |-> keys[k][3],
                 count |-> Len(group),
                 promoters |-> SFA_promoters(group),
                 detractors |-> SFA_detractors(group),
                 nps |-> SFA_nps_value(group)]]

\* _analyze_by_store: the table shown
SFA_analyze_by_store(frame, filters) ==
    LET grouped == SFA_filter_and_sort(SFA_store_groups(frame), filters)
    IN  [k \in 1 .. Len(grouped) |->
            [team |-> grouped[k].team, dealer |-> grouped[k].dealer,
             store |-> grouped[k].store,
             nps_text |-> SFA_nps_text(grouped[k].nps),
             count |-> grouped[k].count,
             promoters |-> grouped[k].promoters,
             detractors |-> grouped[k].detractors]]

\* _get_store_tcrew_detail.get_status, lines 214-222, on tenths
SFA_get_status(diff) ==
    IF diff >= 50 THEN "excellent"                \* 🟢 우수
    ELSE IF diff >= 0 THEN "good"                 \* 🟢 양호
    ELSE IF diff >= -50 THEN "caution"            \* 🟠 주의
    ELSE "needs_improvement"                      \* 🔴 개선필요

\* _get_store_tcrew_detail, lines 188-227: the rows of one store name, one per
\* agent in groupby's order, against the store as a whole
SFA_store_detail_rows(frame, store_name) ==
    LET store_rows == SelectSeq(frame, LAMBDA r : r.store = store_name)
        agents == SortedKeys({<<store_rows[i].agent>> : i \in 1 .. Len(store_rows)})
    IN  [k \in 1 .. Len(agents) |->
            LET group == SelectSeq(store_rows, LAMBDA r : <<r.agent>> = agents[k])
                vs_store == SFA_vs_store(SFA_nps_value(group), store_rows)
            IN  [agent |-> agents[k][1],
                 nps |-> SFA_nps_value(group),
                 count |-> Len(group),
                 share |-> SFA_share(Len(group), Len(store_rows)),
                 vs_store |-> vs_store,
                 status |-> SFA_get_status(vs_store)]]

\* _get_store_tcrew_detail: for each store name, in ascending order, its
\* agents sorted by NPS, the lowest first
SFA_get_store_tcrew_detail(frame) ==
    LET stores == SortedKeys({<<frame[i].store>> : i \in 1 .. Len(frame)})
    IN  [k \in 1 .. Len(stores) |->
            [store |-> stores[k][1],
             rows |-> SortRows(SFA_store_detail_rows(frame, stores[k][1]),
                               LAMBDA a, b : a.nps < b.nps)]]

\* the rows of a table whose NPS, read back from the text column, is the
\* lowest of the table (lines 252-258 and 285-291)
SFA_worst_rows(table) ==
    SelectSeq(table, LAMBDA r :
        \A k \in 1 .. Len(table) :
            SFA_nps_numeric(r.nps_text) <= SFA_nps_numeric(table[k].nps_text))

\* mutant: the count of the others is the count of all rows at the minimum
SFA_worst_insight_all_tied(kind, worst) ==
    [kind |-> kind, row |-> worst[1],
     others |-> IF Len(worst) = 1 THEN None ELSE Some(Len(worst))]

\* lines 260-274 and 293-307: the insight names the first of the worst rows,
\* and counts the others when there are any
SFA_worst_insight(kind, worst) ==
    [kind |-> kind, row |-> worst[1],
     others |-> IF Len(worst) = 1 THEN None ELSE Some(Len(worst) - 1)]

\* lines 277-280: the range of the NPS values
SFA_range_insight(nps_values) ==
    LET values == {nps_values[k] : k \in 1 .. Len(nps_values)}
    IN  [kind |-> "range", min |-> Min(values), max |-> Max(values)]

\* _generate_insights
SFA_generate_insights(result_tcrew, result_store, nps_values) ==
    (IF Len(result_tcrew) > 0
     THEN <<SFA_worst_insight("worst_tcrew", SFA_worst_rows(result_tcrew))>>
          \o (IF Len(nps_values) > 0 THEN <<SFA_range_insight(nps_values)>> ELSE << >>)
     ELSE << >>)
    \o
    (IF Len(result_store) > 0
     THEN <<SFA_worst_insight("worst_store", SFA_worst_rows(result_store))>>
     ELSE << >>)

\* analyze, lines 42-55, from the three tables: the summary (the mean NPS is
\* carried as present or 'N/A') and the insights
SFA_bundle(by_tcrew, by_store, store_tcrew_detail) ==
    [by_tcrew |-> by_tcrew.result,
     by_store |-> by_store,
     store_tcrew_detail |-> store_tcrew_detail,
     summary |-> [tcrew_count |-> Len(by_tcrew.result),
                  store_count |-> Len(by_store),
                  mean_nps |-> IF Len(by_tcrew.result) > 0 THEN "value" ELSE "N/A"],
     insights |-> SFA_generate_insights(by_tcrew.result, by_store, by_tcrew.nps_values)]

\* the responses of the agents that a per-agent table lists
RowsOfListed(frame, table) ==
    SelectSeq(frame, LAMBDA r :
        \E k \in 1 .. Len(table) : table[k].store = r.store /\ table[k].agent = r.agent)

\* analyze with the detail computed from the agents left after the filters
SFA_analyze_detail_of_filtered(frame, filters) ==
    SFA_bundle(SFA_analyze_by_tcrew(frame, filters),
              SFA_analyze_by_store(frame, filters),
              SFA_get_store_tcrew_detail(
                  RowsOfListed(frame, SFA_analyze_by_tcrew(frame, filters).result)))

\* SimpleFilterAnalyzer.analyze, lines 33-55, on a frame with at least one
\* row: the dict returned
SFA_analyze(frame, filters) ==
    SFA_bundle(SFA_analyze_by_tcrew(frame, filters),
              SFA_analyze_by_store(frame, filters),
              SFA_get_store_tcrew_detail(frame))

----------------------------------------------------------------------------
(* The dicts the analyzers return.  A dict is a record with exactly the    *)
(* dict's keys; an empty DataFrame and an empty dict are << >>; a message  *)
(* is a record of its fixed text, romanised, and the value formatted into  *)
(* it.  The by-store table, the detail and the insights of a successful    *)
(* period comparison or senior gap analysis are held as the name of the    *)
(* method that computes them.                                              *)

\* the text 'N/A' of a summary entry, where a label or a value is expected
NotAvailable == [kind |-> "N/A", a |-> 0, b |-> 0]

\* a message f"⚠️ {text}" of the insights list
Warning(text, value) == [warning |-> text, value |-> value]

\* "💡 분석월 필터를 '전체'로 변경해보세요."
TryAllMonths == [hint |-> "bunseogwol pilteoreul jeonchero byeongyeonghaeboseyo"]

\* the value a method of the analyzer returns
ComputedBy(method) == [method |-> method]

\* period_comparison.py lines 53-63: the dict returned when the frame has no
\* 처리일 column
PC_no_date_column ==
    [data |-> << >>,
     insights |-> <<Warning("cheoriil keolleomi eopseumnida", None)>>,
     summary |-> [satisfied_tcrew |-> 0, base_period |-> NotAvailable,
                  compare_period |-> NotAvailable, mean_nps_change |-> NotAvailable]]

\* lines 77-90 with the fallback labels in place of 'N/A' and a message of
\* the analyzer in place of the parser's
PC_error_bundle_fallback(comparison_periods) ==
    [by_tcrew |-> << >>, by_store |-> << >>, store_tcrew_detail |-> << >>,
     insights |-> <<Warning("gigan oryu", None)>>,
     summary |-> [satisfied_tcrew |-> 0, satisfied_store |-> 0,
                  base_period |-> RangeLabel(9, 12), compare_period |-> MonthLabel(1),
                  mean_nps_change |-> NotAvailable]]

\* lines 77-90: the dict returned when comparison_periods carries an error
PC_error_bundle(comparison_periods) ==
    [by_tcrew |-> << >>, by_store |-> << >>, store_tcrew_detail |-> << >>,
     insights |-> <<Warning(Val(Val(comparison_periods).error), None)>>,
     summary |-> [satisfied_tcrew |-> 0, satisfied_store |-> 0,
                  base_period |-> NotAvailable, compare_period |-> NotAvailable,
                  mean_nps_change |-> NotAvailable]]

\* lines 98-99 and 106-107: the labels of the two periods compared
PC_labels(comparison_periods) ==
    IF comparison_periods # None
    THEN <<Val(comparison_periods).period1_label, Val(comparison_periods).period2_label>>
    ELSE <<RangeLabel(9, 12), MonthLabel(1)>>

\* lines 130-143: no response in the base period; this summary has no mean
\* change entry
PC_no_period1(labels) ==
    [by_tcrew |-> << >>, by_store |-> << >>, store_tcrew_detail |-> << >>,
     insights |-> <<Warning("gijun gigane eungdap deiteoga eopseumnida", Some(labels[1])),
                    TryAllMonths>>,
     summary |-> [satisfied_tcrew |-> 0, satisfied_store |-> 0,
                  base_period |-> labels[1], compare_period |-> labels[2]]]

\* lines 157-171 and 195-209: no response in the compared period, or no agent
\* with responses in both periods
PC_empty_bundle(insight, labels) ==
    [by_tcrew |-> << >>, by_store |-> << >>, store_tcrew_detail |-> << >>,
     insights |-> <<insight, TryAllMonths>>,
     summary |-> [satisfied_tcrew |-> 0, satisfied_store |-> 0,
                  base_period |-> labels[1], compare_period |-> labels[2],
                  mean_nps_change |-> NotAvailable]]

\* lines 285-298: the dict of a completed comparison
PC_full_bundle(result, labels) ==
    [by_tcrew |-> result,
     by_store |-> ComputedBy("_analyze_by_store"),
     store_tcrew_detail |-> ComputedBy("_get_store_tcrew_detail"),
     insights |-> ComputedBy("_generate_insights"),
     summary |-> [satisfied_tcrew |-> Len(result),
                  satisfied_store |-> ComputedBy("_analyze_by_store"),
                  base_period |-> labels[1], compare_period |-> labels[2],
                  mean_nps_change |-> ComputedBy("mean")]]

\* the dict of each outcome of PC_analyze
PC_bundle_of(r, comparison_periods) ==
    IF r.raised THEN Raised
    ELSE IF r.outcome = "select_month" THEN Returns(PC_error_bundle(comparison_periods))
    ELSE IF r.outcome = "no_period1"
    THEN Returns(PC_no_period1(PC_labels(comparison_periods)))
    ELSE IF r.outcome = "no_period2"
    THEN Returns(PC_empty_bundle(
             Warning("bigyo gigane eungdap deiteoga eopseumnida",
                     Some(PC_labels(comparison_periods)[2])),
             PC_labels(comparison_periods)))
    ELSE IF r.outcome = "no_common"
    THEN Returns(PC_empty_bundle(
             Warning("du gigan modu deiteoga inneun tkeuruga eopseumnida", None),
             PC_labels(comparison_periods)))
    ELSE Returns(PC_full_bundle(r.by_tcrew, PC_labels(comparison_periods)))

\* PeriodComparisonAnalyzer.analyze, lines 39-298, on a frame with or without
\* the 처리일 column
PC_return(has_date_column, frame, filters) ==
    IF ~has_date_column THEN Returns(PC_no_date_column)
    ELSE PC_bundle_of(PC_analyze(frame, filters), filters.comparison_periods)

\* senior_gap.py lines 141-151: the dict returned when no agent is left
\* after the scope filters
SG_no_data ==
    [data |-> << >>,
     insights |-> <<Warning("jogeoneul manjokaneun deiteoga eopseumnida", None)>>,
     summary |-> [satisfied_tcrew |-> 0, nps_target |-> NotAvailable,
                  senior_rate |-> NotAvailable, satisfied_nps |-> NotAvailable]]

\* SeniorGapAnalyzer.analyze, lines 62-270: the dict returned
SG_return(frame, filters) ==
    LET r == SG_analyze(frame, filters)
    IN  IF r.outcome = "no_data" THEN Returns(SG_no_data)
        ELSE Returns([by_tcrew |-> r.by_tcrew,
                      by_store |-> ComputedBy("_analyze_by_store"),
                      store_tcrew_detail |-> ComputedBy("_get_store_tcrew_detail"),
                      insights |-> ComputedBy("_generate_insights"),
                      summary |-> ComputedBy("summary_dict")])

\* SimpleFilterAnalyzer.analyze, lines 22-55: the dict returned, or the
\* exception of a frame without rows.  On such a frame the grouped frame is
\* empty and grouped.apply(..., axis=1) at line 201 hands back a copy of the
\* grouped frame instead of a column (the lambda's store_total[...] has no
\* key for the row pandas tries it on), and assigning that frame of several
\* columns to the one column raises ValueError; analyze has no test for an
\* empty frame and catches nothing.
SFA_return(frame, filters) ==
    IF Len(frame) = 0 THEN Raised ELSE Returns(SFA_analyze(frame, filters))

----------------------------------------------------------------------------
(* One run of the script once a question was submitted (src/app.py, lines  *)
(* 210-466).                                                                *)

\* df_for_filter = connector.load_raw_data(), line 225, is None when the
\* sheet cannot be read and otherwise the rows of the sheet.  Of a row the
\* panel reads 년월 (ym, the '%Y년 %m월' of 처리일, lines 230-232), 마케팅팀명
\* (team), 대리점명 (dealer) and 매장명 (store).
\* lines 227-236: the options of the month selectbox, '전체' and the months
\* of the rows
month_options(df_for_filter) ==
    {Spell("jeonche")}
    \cup (IF df_for_filter = None THEN {} ELSE {r.ym : r \in Val(df_for_filter)})

\* lines 260-267: the rows of the selected month, every row under '전체'
MonthFrame(df_for_filter, analysis_month) ==
    IF df_for_filter = None \/ analysis_month = Spell("jeonche") THEN df_for_filter
    ELSE Some({r \in Val(df_for_filter) : r.ym = analysis_month})

\* lines 274-277: the teams of the rows, or the three teams of the default
\* list when there are no rows ('전체' is the first option of either list)
team_options(df_for_filter) ==
    IF df_for_filter # None THEN {r.team : r \in Val(df_for_filter)}
    ELSE {"incheon-marketingteam", "nambu-marketingteam", "gangseo-marketingteam"}

\* lines 279-287 and 321-330: a selectbox stands at the parsed value when it
\* is truthy and among the options, and at its first option '전체'
\* otherwise; the panel writes the selection back, '전체' as None
SelectedOrAll(parsed, options) ==
    IF parsed # None /\ Val(parsed) \in options THEN parsed ELSE None

\* lines 313-319: the stores of the rows of the selected team (of every team
\* under '전체'); the dealer selectbox stands at '전체'.  Without rows the
\* panel writes None for the store (lines 331-332)
store_list(df_for_filter, team) ==
    {r.store : r \in {x \in Val(df_for_filter) : team = None \/ x.team = Val(team)}}

\* lines 363-370: st.number_input(min_value=-100, max_value=100, value=...)
\* with the parsed target if it is truthy and 87 otherwise; a value above
\* max_value makes number_input raise
NpsTargetInput(nps_target) ==
    IF nps_target # None /\ Val(nps_target) # 0
    THEN IF Val(nps_target) > 100 THEN Raised ELSE Returns(nps_target)
    ELSE Returns(Some(87))

\* lines 219-384, the filter panel on the dict parse returned: [raised,
\* value].  The month selectbox is at analysis_month and df_for_filter is
\* what load_raw_data returned; every other widget is at the value it shows
\* for the parsed filters: the parsed team and store if they are among the
\* options of the rows of that month and '전체' (None) otherwise, every
\* dealer, 5 responses for both periods, the parsed NPS target if it is
\* truthy and 87 otherwise, and the radio at 'below' only if the parsed
\* comparison is 'below'.  The run raises at line 363 when the parsed target
\* is above 100
PanelFilters(filters, analysis_month, df_for_filter) ==
    LET frame == MonthFrame(df_for_filter, analysis_month)
        team == SelectedOrAll(filters.team, team_options(frame))
        nps_target == NpsTargetInput(filters.nps_target)
    IN  IF nps_target.raised THEN Raised
        ELSE Returns(Some(
            [dealer_name |-> None, min_responses_period1 |-> 5,
             min_responses_period2 |-> 5]
            @@ [filters EXCEPT
                    !.analysis_month = Some(analysis_month),
                    !.team = team,
                    !.store_name = IF frame = None THEN None
                                   ELSE SelectedOrAll(@, store_list(frame, team)),
                    !.min_responses = 5,
                    !.nps_target = nps_target.value,
                    !.nps_comparison = IF @ = Some("below") THEN Some("below")
                                       ELSE Some("above")]))

\* lines 391-392: a comparison of months is shown and analyzed over '전체'
ForceAllMonths(filters, t) ==
    IF filters.analysis_type = "period_comparison" /\ ~Has(t, "il")
    THEN [filters EXCEPT !.analysis_month = Some(Spell("jeonche"))]
    ELSE filters

\* lines 401-402: the comparison periods extracted again replace those of
\* parse if they are truthy
ReplacePeriods(filters, comparison_periods) ==
    IF comparison_periods.raised THEN Raised
    ELSE IF comparison_periods.value # None
    THEN Returns([filters EXCEPT !.comparison_periods = comparison_periods.value])
    ELSE Returns(filters)

\* lines 397-402: comparison periods are extracted again with the analysis
\* month of the panel
ExtractAgain(filters, t) ==
    IF filters.analysis_month # None /\ Val(filters.analysis_month) # << >>
    THEN ReplacePeriods(filters, _extract_comparison_periods(t, filters.analysis_month))
    ELSE Returns(filters)

\* lines 433-466: the analyzer constructed and run for an analysis type, or
\* the warning shown; result = None where no analyzer runs
Dispatch(analysis_type) ==
    IF analysis_type = "simple_filter"
    THEN [analyzer |-> Some("SimpleFilterAnalyzer"), message |-> None,
          result |-> Some(ComputedBy("SimpleFilterAnalyzer.analyze"))]
    ELSE IF analysis_type = "senior_gap"
    THEN [analyzer |-> Some("SeniorGapAnalyzer"), message |-> None,
          result |-> Some(ComputedBy("SeniorGapAnalyzer.analyze"))]
    ELSE IF analysis_type = "period_comparison"
    THEN [analyzer |-> Some("PeriodComparisonAnalyzer"), message |-> None,
          result |-> Some(ComputedBy("PeriodComparisonAnalyzer.analyze"))]
    ELSE IF analysis_type = "store_analysis"
    \* 매장별 상세 분석은 다음 버전에서 지원 예정입니다
    THEN [analyzer |-> None, message |-> Some("daeum beojeoneseo jiwon yejeong"),
          result |-> None]
    \* 질문 유형을 인식할 수 없습니다
    ELSE [analyzer |-> None, message |-> Some("jilmun yuhyeongeul insikal su eopseumnida"),
          result |-> None]

\* the end of the run: the filters handed to the analyzer, the summary shown
\* at line 395, and what the dispatch did
RunEnded(filters, summary, dispatched) ==
    [raised |-> FALSE, filters |-> Some(filters), summary |-> summary,
     analyzer |-> dispatched.analyzer, message |-> dispatched.message,
     result |-> dispatched.result]

\* line 407, df, _ = load_data_once(): app.py neither defines nor imports
\* the name load_data_once (its loader is load_initial_data, line 88), so
\* the call raises NameError
load_data_once == Raised

\* a run that the exception of line 407 ended: the summary was shown and
\* filters is the dict the dispatch would have handed to an analyzer; no
\* analyzer was constructed and no warning shown
RunStopped(filters, summary) ==
    [raised |-> TRUE, filters |-> Some(filters), summary |-> summary,
     analyzer |-> None, message |-> None, result |-> None]

\* a run that an exception ended
RunRaised ==
    [raised |-> TRUE, filters |-> None, summary |-> None,
     analyzer |-> None, message |-> None, result |-> None]

\* the run from line 404 on, filters being the outcome of the second
\* extraction: the dataset is asked for, then the analysis dispatched
RunDispatch(filters, summary) ==
    IF filters.raised THEN RunRaised
    ELSE IF load_data_once.raised THEN RunStopped(filters.value, summary)
    ELSE RunEnded(filters.value, summary, Dispatch(filters.value.analysis_type))

\* the run from line 394 on, filters being those shown in the summary
RunShown(filters, t) ==
    RunDispatch(ExtractAgain(filters, t), Some(get_filter_summary(filters)))

\* the run from line 386 on, panel being what the filter panel did
RunPanelled(panel, t) ==
    IF panel.raised THEN RunRaised
    ELSE RunShown(ForceAllMonths(Val(panel.value), t), t)

\* the run from the filter panel on, parsed being what parse returned
RunParsed(parsed, t, month, df_for_filter) ==
    IF parsed.raised THEN RunRaised
    ELSE RunPanelled(PanelFilters(Val(parsed.value), month, df_for_filter), t)

\* the whole run: parse, filter panel, summary, second extraction, dispatch
RunScript(q, month, df_for_filter) ==
    RunParsed(parse(q), Text(q), Text(month), df_for_filter)

----------------------------------------------------------------------------
(* The initial state and the NPS metric at work *)

ScoreVals == 0 .. 10

NpsIdle == scores = << >> /\ nps_out = None
ParserIdle == question = << >> /\ returned = None /\ extracted = None
AnalyzersIdle == df = << >> /\ pc_out = None /\ sg_out = None /\ sg_before = None
SfIdle == sf_out = None /\ sf_before = None
StatusIdle == delta = None /\ status_out = None
BundleIdle == date_column = TRUE /\ bundle = None
AppIdle == app_filters = None /\ app_result = None /\ summary_out = None
AllIdle == SfIdle /\ StatusIdle /\ BundleIdle /\ AppIdle

AddScore ==
    /\ nps_out = None
    /\ Len(scores) < MaxScores
    /\ \E s \in ScoreVals : scores' = Append(scores, s)
    /\ UNCHANGED <<nps_out, parserVars, analyzerVars, restVars>>

CalcNps ==
    /\ nps_out = None
    /\ nps_out' = Some([pc |-> PC_calculate_nps(scores), sg |-> SG_calculate_nps(scores)])
    /\ UNCHANGED <<scores, parserVars, analyzerVars, restVars>>

InitNps == NpsIdle /\ ParserIdle /\ AnalyzersIdle /\ AllIdle
NextNps == AddScore \/ CalcNps
SpecNps == InitNps /\ [][NextNps]_vars

----------------------------------------------------------------------------
(* The parser at work: a question is typed word by word and then parsed *)

\* app.py line 217: filters = parser.parse(question)
Parse ==
    /\ returned = None
    /\ returned' = Some(parse(question))
    /\ UNCHANGED <<npsVars, question, extracted, analyzerVars, restVars>>

\* the analysis months a caller hands to _extract_comparison_periods: none,
\* the empty string, '전체' and a month of the selectbox
MonthChoices ==
    {None, Some(<< >>), Some(<<"jeonche">>), Some(<<"2025nyeon 02wol">>)}

\* a call parser._extract_comparison_periods(question, analysis_month), as
\* app.py line 400 makes once the question is parsed
ExtractPeriods ==
    /\ returned # None
    /\ extracted = None
    /\ \E m \in MonthChoices :
           LET analysis_month == IF m = None THEN None ELSE Some(Text(Val(m)))
           IN  extracted' = Some([analysis_month |-> m,
                   result |-> _extract_comparison_periods(Text(question), analysis_month)])
    /\ UNCHANGED <<npsVars, question, returned, analyzerVars, restVars>>

TypeWord(vocabulary, limit) ==
    /\ returned = None
    /\ Len(question) < limit
    /\ \E w \in vocabulary : question' = Append(question, w)
    /\ UNCHANGED <<npsVars, returned, extracted, analyzerVars, restVars>>

\* pieces of questions about the kind of analysis
KindVocabulary ==
    {"NPS", "nps", "sinieo", "sinieo bijung", "sinieo GAP", "chai", "daebi",
     "bigyo", "daebi harak", "gigan sangseung", "harak", "maejang", "daerijeom"}

TypeKindWord == TypeWord(KindVocabulary, MaxKindWords)

\* pieces of questions about an NPS target
TargetVocabulary ==
    {"nps", "NPS", "90", "0", "%", "miman", "isang", "natgo", "nopeun"}

TypeTargetWord == TypeWord(TargetVocabulary, MaxTargetWords)

\* pieces of questions that compare two periods
PeriodVocabulary ==
    {"9~", "12wol", "13wol", "0wol", " daebi 1wol", "2il", "nujeok", " daebi 5il"}

TypePeriodWord == TypeWord(PeriodVocabulary, MaxPeriodWords)

InitParser == NpsIdle /\ ParserIdle /\ AnalyzersIdle /\ AllIdle
NextPeriods == TypePeriodWord \/ Parse \/ ExtractPeriods
SpecPeriods == InitParser /\ [][NextPeriods]_vars
NextTarget == TypeTargetWord \/ Parse
SpecTarget == InitParser /\ [][NextTarget]_vars
NextKind == TypeKindWord \/ Parse
SpecKind == InitParser /\ [][NextKind]_vars

----------------------------------------------------------------------------
(* The analyzers at work, called as a caller that holds a frame calls them: *)
(* the frame handed to the constructor (self.df = df) is built row by row, *)
(* then analyze(filters) is called on it                                   *)

\* a frame of one more row is handed to a new analyzer: what the analyzer of
\* the frame before returned is of that frame and is forgotten
AddRow(choices) ==
    /\ Len(df) < MaxRows
    /\ \E r \in choices : df' = Append(df, r)
    /\ pc_out' = None /\ sg_out' = None /\ sg_before' = None
    /\ UNCHANGED <<npsVars, parserVars, restVars>>

December == Date(2025, 12, 15)
January == Date(2026, 1, 10)

\* responses of two agents at two stores in December 2025 and January 2026
PcRowChoices ==
    [agent : 1 .. 2, team : {"T1"}, store : {"S1", "S2"},
     date : {December, January}, senior : {FALSE}, score : {0, 10}]

AddPcRow == AddRow(PcRowChoices)

\* the filters of a period comparison: every trend, an NPS target or none,
\* two pairs of floors, and the periods the parser produced
PcFilterChoices ==
    {[comparison_periods |-> None, trend |-> t, nps_target |-> n[1],
      nps_comparison |-> n[2], min_responses_period1 |-> f[1],
      min_responses_period2 |-> f[2]] :
        t \in {None, Some("decrease"), Some("increase")},
        n \in {<<None, "below">>, <<Some(50), "above">>},
        f \in {<<1, 1>>, <<1, 2>>}}
    \cup
    {[comparison_periods |-> c, trend |-> None, nps_target |-> Some(50),
      nps_comparison |-> "below", min_responses_period1 |-> 1,
      min_responses_period2 |-> 1] :
        c \in {Some(PeriodsError), PeriodsPattern1(<<12, 1>>).value}}

\* PeriodComparisonAnalyzer(df).analyze(filters)
PcAnalyze ==
    /\ pc_out = None
    /\ \E f \in PcFilterChoices :
           pc_out' = Some([filters |-> f, result |-> PC_analyze(df, f)])
    /\ UNCHANGED <<npsVars, parserVars, df, sg_out, sg_before, restVars>>

InitAnalyzers == NpsIdle /\ ParserIdle /\ AnalyzersIdle /\ AllIdle
NextPc == AddPcRow \/ PcAnalyze
SpecPc == InitAnalyzers /\ [][NextPc]_vars

----------------------------------------------------------------------------
(* The senior gap analyzer at work: a dataset is analyzed, and analyzed    *)
(* again after the minimum response input of the session was changed       *)

\* responses of two agents of two teams, seniors and others
SgRowChoices ==
    [agent : 1 .. 2, team : {"T1", "T2"}, store : {"S1"},
     date : {December}, senior : BOOLEAN, score : {0, 10}]

AddSgRow == AddRow(SgRowChoices)

FloorChoices == {1, 2}

\* the filters of a senior gap analysis
SgFilterChoices ==
    [analysis_month : {None}, team : {None, Some("T1")}, store_name : {None},
     senior_threshold : {None, Some(SeniorTag("below_avg", << >>)),
                         Some(SeniorTag("custom", <<"5", "0">>))},
     nps_target : {None}, nps_comparison : {"below"},
     min_responses : FloorChoices]

\* SeniorGapAnalyzer(df).analyze(filters)
SgAnalyze ==
    /\ sg_out = None
    /\ \E f \in SgFilterChoices :
           sg_out' = Some([filters |-> f, result |-> SG_analyze(df, f)])
    /\ UNCHANGED <<npsVars, parserVars, df, pc_out, sg_before, restVars>>

\* analyze is called again on the same frame with another minimum response
\* floor
SgChangeFloor ==
    /\ sg_out # None /\ sg_before = None
    /\ \E m \in FloorChoices \ {Val(sg_out).filters.min_responses} :
           LET f == [Val(sg_out).filters EXCEPT !.min_responses = m]
           IN  sg_out' = Some([filters |-> f, result |-> SG_analyze(df, f)])
    /\ sg_before' = sg_out
    /\ UNCHANGED <<npsVars, parserVars, df, pc_out, restVars>>

NextSg == AddSgRow \/ SgAnalyze \/ SgChangeFloor
SpecSg == InitAnalyzers /\ [][NextSg]_vars

----------------------------------------------------------------------------
(* The simple filter analyzer at work: a dataset is analyzed, and analyzed *)
(* again after the filters of the session were changed                     *)

\* responses of two agents at two stores of one dealer: detractors,
\* passives and promoters
SfRowChoices ==
    {r \in [team : {1}, dealer : {1}, store : 1 .. 2, agent : 1 .. 2, score : {0, 8, 10}] :
        r.store = 2 \/ r.agent = 1}

AddSfRow ==
    /\ Len(df) < MaxRows
    /\ \E r \in SfRowChoices : df' = Append(df, r)
    /\ sf_out' = None /\ sf_before' = None
    /\ UNCHANGED <<npsVars, parserVars, pc_out, sg_out, sg_before,
                   statusVars, bundleVars, appVars>>

\* the filters of a simple filter analysis: the minimum response input (or
\* the analyzer's default when the key is absent) and the NPS target
SfFilterChoices ==
    {[min_responses_period1 |-> c[1], nps_target |-> c[2], nps_comparison |-> c[3]] :
        c \in {<<Some(1), None, "below">>, <<Some(2), None, "below">>,
               <<Some(1), Some(0), "below">>, <<Some(1), Some(0), "above">>,
               <<None, None, "below">>}}

\* SimpleFilterAnalyzer(df).analyze(filters)
SfAnalyze ==
    /\ sf_out = None
    /\ \E f \in SfFilterChoices :
           sf_out' = Some([filters |-> f, returned |-> SFA_return(df, f)])
    /\ UNCHANGED <<npsVars, parserVars, analyzerVars, sf_before,
                   statusVars, bundleVars, appVars>>

\* analyze is called again on the same frame with other filters
SfChangeFilters ==
    /\ sf_out # None /\ sf_before = None
    /\ \E f \in SfFilterChoices \ {Val(sf_out).filters} :
           sf_out' = Some([filters |-> f, returned |-> SFA_return(df, f)])
    /\ sf_before' = sf_out
    /\ UNCHANGED <<npsVars, parserVars, analyzerVars,
                   statusVars, bundleVars, appVars>>

NextSf == AddSfRow \/ SfAnalyze \/ SfChangeFilters
SpecSf == InitAnalyzers /\ [][NextSf]_vars

----------------------------------------------------------------------------
(* C1 *)

AllScores(Test(_)) == \A i \in DOMAIN scores : Test(scores[i])
NetPromoters == CountIf(scores, IsPromoter) - CountIf(scores, IsDetractor)

\* C1 as stated: for every sequence of scores in 0..10 both _calculate_nps
\* return a value in [-100, 100], 0 for the empty sequence, 100 when every
\* score is >= 9, -100 when every score is <= 6, and otherwise exactly
\* (promoters - detractors) / total * 100.
C1_Original ==
    nps_out # None =>
        \A v \in {Val(nps_out).pc, Val(nps_out).sg} :
            /\ v >= -10000 /\ v <= 10000
            /\ Len(scores) = 0 => v = 0
            /\ (Len(scores) > 0 /\ AllScores(IsPromoter)) => v = 10000
            /\ (Len(scores) > 0 /\ AllScores(IsDetractor)) => v = -10000
            /\ Len(scores) > 0 => v * Len(scores) = NetPromoters * 10000

\* C1 amended: as C1, but in the general case the value is
\* (promoters - detractors) / total * 100 rounded to 2 decimals: it is a
\* whole number of hundredths within half a hundredth of the exact quotient.
C1_NpsRoundedValue ==
    nps_out # None =>
        \A v \in {Val(nps_out).pc, Val(nps_out).sg} :
            /\ v >= -10000 /\ v <= 10000
            /\ Len(scores) = 0 => v = 0
            /\ (Len(scores) > 0 /\ AllScores(IsPromoter)) => v = 10000
            /\ (Len(scores) > 0 /\ AllScores(IsDetractor)) => v = -10000
            /\ Len(scores) > 0 =>
                   2 * Abs(v * Len(scores) - NetPromoters * 10000) <= Len(scores)

\* a mixed sequence whose quotient is not a whole number of hundredths
C1_Witness ==
    /\ scores = <<9, 7, 7>>
    /\ nps_out = Some([pc |-> 3333, sg |-> 3333])

----------------------------------------------------------------------------
(* What the last call of parse returned *)

ParsedOk == returned # None /\ ~Val(returned).raised
ParsedFilters == Val(Val(returned).value)
LowerQuestion == Lower(Text(question))
ParsedPeriods == ParsedFilters.comparison_periods

\* what the last direct call of _extract_comparison_periods returned
ExtractedOk == extracted # None /\ ~Val(extracted).result.raised
ExtractedPeriods == Val(extracted).result.value
NoMonthSupplied == Val(extracted).analysis_month \in {None, Some(<< >>)}

----------------------------------------------------------------------------
(* C3 *)

\* the numbers n such that the text holds "nps", then no digit, then n, then
\* no digit, then one of the keywords
StatedTargets(t, kws) ==
    {ToInt(t, ab[1], ab[2]) : ab \in
        {x \in (1 .. Len(t)) \X (1 .. Len(t)) :
            /\ x[1] <= x[2]
            /\ \A k \in x[1] .. x[2] : IsDigit(t[k])
            /\ x[2] = Len(t) \/ NonDigit(t[x[2] + 1])
            /\ \E i \in Occ(t, "nps") :
                   i + 3 <= x[1] /\ \A k \in (i + 3) .. (x[1] - 1) : NonDigit(t[k])
            /\ \E kw \in kws : \E p \in Occ(t, kw) :
                   p > x[2] /\ \A k \in (x[2] + 1) .. (p - 1) : NonDigit(t[k])}}

ComparisonKeywords == BelowKeywords \cup AboveKeywords
SentimentKeywords == LowSentiment \cup HighSentiment

\* C3 as stated: nps_target is absent when the question does not mention
\* 'nps' or mentions it with no below/above keyword, and present (the stated
\* number, or 87) with nps_comparison in {below, above} otherwise.
C3_Original ==
    ParsedOk =>
        LET f == ParsedFilters
            keyword == HasAny(LowerQuestion, ComparisonKeywords \cup SentimentKeywords)
        IN  IF Has(LowerQuestion, "nps") /\ keyword
            THEN /\ f.nps_target # None
                 /\ f.nps_comparison \in {Some("below"), Some("above")}
            ELSE f.nps_target = None

\* C3 amended: nps_target is present iff the question mentions 'nps' and
\* either (a) an 'nps' is followed, with no digit in between, by a number
\* that is followed, before any further digit, by a below or above keyword,
\* or (b) the question holds a bare low/high sentiment keyword.  When present
\* it is the stated number in case (a) and 87 otherwise, with nps_comparison
\* in {below, above}; when absent it is None and so is nps_comparison.
C3_NpsTargetPresence ==
    ParsedOk =>
        LET f == ParsedFilters
            stated == StatedTargets(LowerQuestion, ComparisonKeywords)
            bare == HasAny(LowerQuestion, SentimentKeywords)
        IN  /\ f.nps_target # None <=>
                   (Has(LowerQuestion, "nps") /\ (stated # {} \/ bare))
            /\ f.nps_target = None => f.nps_comparison = None
            /\ f.nps_target # None =>
                   /\ f.nps_comparison \in {Some("below"), Some("above")}
                   /\ IF stated # {} THEN Val(f.nps_target) \in stated
                      ELSE Val(f.nps_target) = DefaultNpsTarget

\* "NPS 0% isang": the target is present and is zero
C3_Witness ==
    /\ ParsedOk
    /\ question = <<"NPS", "0", "%", "isang">>
    /\ ParsedFilters.nps_target = Some(0)
    /\ ParsedFilters.nps_comparison = Some("above")

----------------------------------------------------------------------------
(* C4 *)

Rule1 == Has(LowerQuestion, "nps") /\ ~HasAny(LowerQuestion, {"sinieo", "daebi", "bigyo"})
Rule2 ==
    /\ Has(LowerQuestion, "sinieo") /\ Has(LowerQuestion, "nps")
    /\ HasAny(LowerQuestion, SeniorKeywords \cup {"gap", "chai"})
Rule3 ==
    /\ HasAny(LowerQuestion, {"gigan", "daebi", "bigyo"})
    /\ HasAny(LowerQuestion, {"sangseung", "harak"})
Rule4 == HasAny(LowerQuestion, {"maejang", "daerijeom"})

\* C4: parse sets analysis_type to the intent of the first satisfied rule in
\* the order simple_filter, senior_gap, period_comparison, store_analysis,
\* general; the value is one of these five, and a question that satisfies
\* both the senior-gap and the period-comparison rule is senior_gap.
C4_AnalysisTypePriority ==
    ParsedOk =>
        LET kind == ParsedFilters.analysis_type IN
        /\ kind \in {"simple_filter", "senior_gap", "period_comparison",
                     "store_analysis", "general"}
        /\ Rule1 => kind = "simple_filter"
        /\ (~Rule1 /\ Rule2) => kind = "senior_gap"
        /\ (~Rule1 /\ ~Rule2 /\ Rule3) => kind = "period_comparison"
        /\ (~Rule1 /\ ~Rule2 /\ ~Rule3 /\ Rule4) => kind = "store_analysis"
        /\ (~Rule1 /\ ~Rule2 /\ ~Rule3 /\ ~Rule4) => kind = "general"
        /\ (Rule2 /\ Rule3) => kind = "senior_gap"

\* a question under both the senior-gap and the period-comparison rule
C4_Witness ==
    /\ ParsedOk
    /\ Rule2 /\ Rule3
    /\ ParsedFilters.analysis_type = "senior_gap"

----------------------------------------------------------------------------
(* C5, C6, C7, C8 *)

ValidMonth(m) == m \in 1 .. 12

\* the range start..end is exactly month m, day 1 to its last calendar day
IsFullMonth(start, end, m) ==
    \E y \in {2025, 2026} :
        start = Some(Date(y, m, 1)) /\ end = Some(Date(y, m, MonthDays(y, m)))

\* p holds two single-month ranges, month m1 and month m2
TwoMonths(p, m1, m2) ==
    /\ p # None
    /\ Val(p).error = None
    /\ IsFullMonth(Val(p).period1_start, Val(p).period1_end, m1)
    /\ IsFullMonth(Val(p).period2_start, Val(p).period2_end, m2)

\* p is the range month ma day 1 .. month mb last day, labelled 'ma~mb월',
\* followed by the full month mc
RangeThenMonth(p, ma, mb, mc) ==
    /\ p # None
    /\ Val(p).error = None
    /\ Val(p).period1_start = Some(Date(2025, ma, 1))
    /\ Val(p).period1_end = Some(Date(2025, mb, MonthDays(2025, mb)))
    /\ Val(p).period1_label = RangeLabel(ma, mb)
    /\ IsFullMonth(Val(p).period2_start, Val(p).period2_end, mc)

\* p is the ERROR sentinel: it carries the error message and no period
IsErrorSentinel(p) ==
    /\ p # None
    /\ Val(p).error = Some(SelectMonthMessage)
    /\ Val(p).period1_start = None /\ Val(p).period2_start = None
    /\ Val(p).period1_label = ErrorLabel /\ Val(p).period2_label = ErrorLabel

\* C5: a question containing 'M1월 대비 M2월' (M1, M2 months of the
\* calendar), with or without other month-like or day-like text, is resolved
\* by pattern 1: parse and _extract_comparison_periods, whatever the analysis
\* month, return two single-month ranges, exactly month M1 and month M2.
C5_MonthPatternFirst ==
    LET m == MonthVsMonth(Text(question))
    IN  (m # None /\ ValidMonth(Val(m)[1]) /\ ValidMonth(Val(m)[2])) =>
            /\ returned # None =>
                   ParsedOk /\ TwoMonths(ParsedPeriods, Val(m)[1], Val(m)[2])
            /\ extracted # None =>
                   ExtractedOk /\ TwoMonths(ExtractedPeriods, Val(m)[1], Val(m)[2])

\* "9~12월 대비 1월 2일": resolved as December against January, with a month
\* selected that the day pattern could use
C5_Witness ==
    /\ question = <<"9~", "12wol", " daebi 1wol", "2il">>
    /\ ParsedOk
    /\ ParsedPeriods # None
    /\ Val(ParsedPeriods).period1_label = MonthLabel(12)
    /\ ExtractedOk
    /\ Val(extracted).analysis_month = Some(<<"2025nyeon 02wol">>)
    /\ ExtractedPeriods = ParsedPeriods

\* C6 as stated: for a question of the form 'Ma~Mb월 대비 Mc월' the first
\* range runs from day 1 of month Ma to the last day of month Mb and is
\* labelled 'Ma~Mb월', and the second range is the full month Mc.
C6_Original ==
    LET r == RangeVsMonth(Text(question))
    IN  (r # None /\ \A k \in 1 .. 3 : ValidMonth(Val(r)[k])) =>
            /\ returned # None =>
                   ParsedOk /\ RangeThenMonth(ParsedPeriods, Val(r)[1], Val(r)[2], Val(r)[3])
            /\ extracted # None =>
                   ExtractedOk /\ RangeThenMonth(ExtractedPeriods, Val(r)[1], Val(r)[2], Val(r)[3])

\* C7 as stated: when the day pattern 'D1일 (누적)? 대비 D2일' matches and no
\* analysis month is supplied, _extract_comparison_periods and parse return
\* the ERROR sentinel.
C7_Original ==
    DayVsDay(Text(question)) # None =>
        /\ returned # None => ParsedOk /\ IsErrorSentinel(ParsedPeriods)
        /\ (extracted # None /\ NoMonthSupplied) =>
               ExtractedOk /\ IsErrorSentinel(ExtractedPeriods)

\* C7 amended: when the day pattern matches, the month pattern
\* 'M1월 대비 M2월' does not, and no analysis month is supplied,
\* _extract_comparison_periods and parse return the ERROR sentinel: neither
\* absent nor a period.
C7_DayPatternNeedsMonth ==
    (DayVsDay(Text(question)) # None /\ MonthVsMonth(Text(question)) = None) =>
        /\ returned # None => ParsedOk /\ IsErrorSentinel(ParsedPeriods)
        /\ (extracted # None /\ NoMonthSupplied) =>
               ExtractedOk /\ IsErrorSentinel(ExtractedPeriods)

\* "2일누적 대비 5일" parsed, and extracted again with an empty analysis month
C7_Witness ==
    /\ question = <<"2il", "nujeok", " daebi 5il">>
    /\ ParsedOk
    /\ IsErrorSentinel(ParsedPeriods)
    /\ ExtractedOk
    /\ Val(extracted).analysis_month = Some(<< >>)
    /\ IsErrorSentinel(ExtractedPeriods)

\* C8 as stated: no extraction sub-step raises, for any question text: parse
\* returns a FilterSpec, and for a month number outside 1..12 in
\* 'M1월 대비 M2월' the comparison periods are absent.
C8_Original ==
    /\ returned # None =>
           /\ ParsedOk
           /\ LET m == MonthVsMonth(Text(question))
              IN  (m # None /\ ~(ValidMonth(Val(m)[1]) /\ ValidMonth(Val(m)[2]))) =>
                      ParsedPeriods = None
    /\ extracted # None => ExtractedOk

----------------------------------------------------------------------------
(* C9 *)

\* the periods the last period comparison compared
PcPeriods == PC_periods(Val(pc_out).filters.comparison_periods)

\* the agent has a row of the dataset dated within start .. end
HasRowWithin(agent, start, end) ==
    \E i \in 1 .. Len(df) :
        df[i].agent = agent /\ DateLE(start, df[i].date) /\ DateLE(df[i].date, end)

PcAgents == {Val(pc_out).result.by_tcrew[k].agent :
                k \in 1 .. Len(Val(pc_out).result.by_tcrew)}

\* C9: whatever the trend, the NPS target and the floors, every agent of the
\* per-agent result has a row in period 1 and a row in period 2, and no agent
\* is listed twice; so an agent with rows in only one period is never listed.
C9_BothPeriods ==
    (pc_out # None /\ ~Val(pc_out).result.raised
        /\ Val(pc_out).result.outcome # "select_month") =>
        LET by_tcrew == Val(pc_out).result.by_tcrew
        IN  /\ \A a \in PcAgents :
                   /\ HasRowWithin(a, PcPeriods.period1_start, PcPeriods.period1_end)
                   /\ HasRowWithin(a, PcPeriods.period2_start, PcPeriods.period2_end)
            /\ \A k \in 1 .. Len(by_tcrew) : \A l \in 1 .. Len(by_tcrew) :
                   by_tcrew[k].agent = by_tcrew[l].agent => k = l

\* agent 2 answered in both periods and is listed; agent 1 answered in
\* December only and is not, under the most permissive filters
C9_Witness ==
    /\ pc_out # None
    /\ Val(pc_out).filters.trend = None
    /\ Val(pc_out).filters.nps_target = None
    /\ Val(pc_out).filters.min_responses_period1 = 1
    /\ Val(pc_out).filters.min_responses_period2 = 1
    /\ Val(pc_out).result.outcome = "ok"
    /\ PcAgents = {2}
    /\ \E i \in 1 .. Len(df) : df[i].agent = 1 /\ df[i].date = December
    /\ ~HasRowWithin(1, PcPeriods.period2_start, PcPeriods.period2_end)

----------------------------------------------------------------------------
(* C10 *)

\* the rows of the dataset within the scope of the last senior gap analysis
InScope(i) ==
    LET f == Val(sg_out).filters
    IN  /\ (f.analysis_month # None /\ Val(f.analysis_month) # AllMonths) =>
               [y |-> df[i].date.y, m |-> df[i].date.m] = Val(f.analysis_month)
        /\ f.team # None => df[i].team = Val(f.team)
        /\ f.store_name # None => df[i].store = Val(f.store_name)

ScopedRows == {i \in 1 .. Len(df) : InScope(i)}

\* C10: the baseline of a senior gap analysis is the senior proportion of
\* the scoped dataset, whatever min_responses is: a run that differs from the
\* run before only in min_responses has the same baseline, and every agent
\* left after the later filter stages still meets the senior proportion
\* filter against that same baseline.
C10_BaselineFromScopedData ==
    (sg_out # None /\ Val(sg_out).result.outcome = "ok") =>
        LET out == Val(sg_out).result
            threshold == Val(sg_out).filters.senior_threshold
            baseline == [senior |-> Cardinality({i \in ScopedRows : df[i].senior}),
                         total |-> Cardinality(ScopedRows)]
        IN  /\ out.avg_senior_rate = baseline
            /\ sg_before # None =>
                   Val(sg_before).result.avg_senior_rate = out.avg_senior_rate
            /\ \A k \in 1 .. Len(out.by_tcrew) :
                   LET r == out.by_tcrew[k]
                   IN  IF threshold = None THEN RateGE(r, baseline)
                       ELSE IF Val(threshold).tag = "below_avg" THEN ~RateGE(r, baseline)
                       ELSE TRUE

\* two runs that differ in min_responses only: the first lists an agent the
\* second drops, and both report the baseline 2/3
C10_Witness ==
    /\ sg_out # None /\ sg_before # None
    /\ Val(sg_before).filters.min_responses = 1
    /\ Val(sg_out).filters.min_responses = 2
    /\ Len(Val(sg_before).result.by_tcrew) = 1
    /\ Len(Val(sg_out).result.by_tcrew) = 0
    /\ Val(sg_out).result.avg_senior_rate = [senior |-> 2, total |-> 3]
    /\ Val(sg_before).result.avg_senior_rate = [senior |-> 2, total |-> 3]

----------------------------------------------------------------------------
(* Months and days of the calendar in the comparison periods *)

\* pieces of questions that compare two months or two days of a month
\* ("12wol daebi 1wol" is the comparison of months in one piece, so that a
\* question can hold it together with a comparison of days)
CalendarVocabulary ==
    {"1wol", "4wol", "12wol", " daebi 1wol", " daebi 2wol", "12wol daebi 1wol",
     "2il", "29il", "30il", " daebi 5il", " daebi 29il", " daebi 30il"}

TypeCalendarWord == TypeWord(CalendarVocabulary, MaxCalendarWords)

\* months of the selectbox, '%Y년 %m월' of a date of the data: February of a
\* common year and of a leap year, and a month of 30 days
CalendarMonths == {<<"2025nyeon 02wol">>, <<"2024nyeon 02wol">>, <<"2025nyeon 04wol">>}

\* app.py line 400: parser._extract_comparison_periods(question, analysis_month)
\* with a month of the selectbox
ExtractForMonth ==
    /\ returned # None
    /\ extracted = None
    /\ \E m \in CalendarMonths :
           extracted' = Some([analysis_month |-> Some(m),
                   result |-> _extract_comparison_periods(Text(question), Some(Text(m)))])
    /\ UNCHANGED <<npsVars, question, returned, analyzerVars, restVars>>

NextCalendar == TypeCalendarWord \/ Parse \/ ExtractForMonth
SpecCalendar == InitParser /\ [][NextCalendar]_vars

(* A run of the script *)

\* pieces of questions of every analysis type, of comparisons of days, and
\* that name a team, a store and NPS targets up to and above 100
AppVocabulary ==
    {"NPS", "sinieo", "chai", "maejang", "2il", " daebi 5il", " daebi 30il", "sangseung",
     "incheon", "suwon", "gangnamjeom", "90", "150", "isang"}

TypeAppWord == TypeWord(AppVocabulary, MaxAppWords)

\* what load_raw_data returns: None, or a sheet with a response of February
\* 2025 at 강남점 of 인천마케팅팀 and one of April 2025 at 강서점 of
\* 남부마케팅팀
AppSheets ==
    {None,
     Some({[ym |-> Text(<<"2025nyeon 02wol">>), team |-> "incheon-marketingteam",
            dealer |-> "D1", store |-> Spell("gangnamjeom")],
           [ym |-> Text(<<"2025nyeon 04wol">>), team |-> "nambu-marketingteam",
            dealer |-> "D2", store |-> Spell("gangseo") \o Spell("jeom")]})}

\* the months a sheet can hold, as pieces of text
AppMonthOptions == {<<"jeonche">>, <<"2025nyeon 02wol">>, <<"2025nyeon 04wol">>}

\* the state a run leaves
AppRan(q, month, df_for_filter, run) ==
    /\ app_filters' = run.filters
    /\ app_result' = Some([question |-> q, month |-> month,
                           sheet |-> df_for_filter, run |-> run])

\* app.py lines 210-466: the script runs on the submitted question, on what
\* load_raw_data returns, with one of the options of the month selectbox
\* selected in the panel
AppRun ==
    /\ question # << >>
    /\ app_result = None
    /\ \E df_for_filter \in AppSheets : \E month \in AppMonthOptions :
           /\ Text(month) \in month_options(df_for_filter)
           /\ AppRan(question, month, df_for_filter,
                     RunScript(question, month, df_for_filter))
    /\ UNCHANGED <<npsVars, parserVars, analyzerVars,
                   sfVars, statusVars, bundleVars, summary_out>>

NextApp == TypeAppWord \/ AppRun
SpecApp == InitParser /\ [][NextApp]_vars

(* The summary of the filters *)

\* pieces of questions that name a team, an NPS target, a senior threshold,
\* a store and a minimum number of responses
SummaryVocabulary ==
    {"incheon", "NPS", "0", "90", "isang", "miman", "sinieo bijung", "nopgo",
     "gangnamjeom", "eungdap", "geon"}

TypeSummaryWord == TypeWord(SummaryVocabulary, MaxSummaryWords)

\* QueryParser.get_filter_summary(filters) called on a FilterSpec: the dict
\* parse returned for the question, its analysis_month absent, '전체' or a
\* month; the function only reads the dict
Summarize ==
    /\ returned # None /\ ~Val(returned).raised
    /\ summary_out = None
    /\ \E m \in {None, Some(<<"jeonche">>), Some(<<"2025nyeon 02wol">>)} :
           LET f == [Val(Val(returned).value) EXCEPT
                         !.analysis_month = IF m = None THEN None ELSE Some(Text(Val(m)))]
           IN  summary_out' = Some([filters |-> f, summary |-> get_filter_summary(f)])
    /\ UNCHANGED <<npsVars, parserVars, analyzerVars,
                   sfVars, statusVars, bundleVars, app_filters, app_result>>

NextSummary == TypeSummaryWord \/ Parse \/ Summarize
SpecSummary == InitParser /\ [][NextSummary]_vars

(* The dict each analyzer returns *)

\* datasets of the period comparison and senior gap analyzers: responses of
\* one agent, in either team, in December 2025 or January 2026
BundleRowChoices ==
    [agent : {1}, team : {"T1", "T2"}, store : {"S1"},
     date : {December, January}, senior : {FALSE}, score : {10}]

\* datasets of the simple filter analyzer: one agent at each store
SfBundleRowChoices == {r \in SfRowChoices : r.agent = 1 /\ r.score # 8}

\* the frame of an analyzer is built row by row, all rows of one kind
AddBundleRow ==
    /\ Len(df) < MaxRows
    /\ \E choices \in {BundleRowChoices, SfBundleRowChoices} :
           /\ \A k \in 1 .. Len(df) : df[k] \in choices
           /\ \E r \in choices : df' = Append(df, r)
    /\ bundle' = None
    /\ UNCHANGED <<npsVars, parserVars, pc_out, sg_out, sg_before,
                   sfVars, statusVars, date_column, appVars>>

\* the frame handed to the analyzers has no 처리일 column
DropDateColumn ==
    /\ bundle = None /\ date_column
    /\ date_column' = FALSE
    /\ UNCHANGED <<npsVars, parserVars, analyzerVars,
                   sfVars, statusVars, bundle, appVars>>

\* the filters of a period comparison: no comparison periods, the error of
\* the parser, and the periods of "12월 대비 1월" and of "9~12월 대비 2월"
PcBundleFilterChoices ==
    {[comparison_periods |-> c, trend |-> None, nps_target |-> None,
      nps_comparison |-> "below", min_responses_period1 |-> 1,
      min_responses_period2 |-> 1] :
        c \in {None, Some(PeriodsError), PeriodsPattern1(<<12, 1>>).value,
               PeriodsPattern2(<<9, 12, 2>>).value}}

\* PeriodComparisonAnalyzer(df).analyze(filters)
PcReturn ==
    /\ bundle = None
    /\ \A k \in 1 .. Len(df) : df[k] \in BundleRowChoices
    /\ \E f \in PcBundleFilterChoices :
           bundle' = Some([analyzer |-> "period_comparison", filters |-> f,
                           returned |-> PC_return(date_column, df, f)])
    /\ UNCHANGED <<npsVars, parserVars, analyzerVars,
                   sfVars, statusVars, date_column, appVars>>

\* SeniorGapAnalyzer(df).analyze(filters), which does not read 처리일
SgReturn ==
    /\ bundle = None
    /\ \A k \in 1 .. Len(df) : df[k] \in BundleRowChoices
    /\ \E f \in {g \in SgFilterChoices : g.senior_threshold = None /\ g.min_responses = 1} :
           bundle' = Some([analyzer |-> "senior_gap", filters |-> f,
                           returned |-> SG_return(df, f)])
    /\ UNCHANGED <<npsVars, parserVars, analyzerVars,
                   sfVars, statusVars, date_column, appVars>>

\* SimpleFilterAnalyzer(df).analyze(filters), which does not read 처리일
SfReturn ==
    /\ bundle = None
    /\ \A k \in 1 .. Len(df) : df[k] \in SfBundleRowChoices
    /\ \E f \in SfFilterChoices :
           bundle' = Some([analyzer |-> "simple_filter", filters |-> f,
                           returned |-> SFA_return(df, f)])
    /\ UNCHANGED <<npsVars, parserVars, analyzerVars,
                   sfVars, statusVars, date_column, appVars>>

NextBundle == AddBundleRow \/ DropDateColumn \/ PcReturn \/ SgReturn \/ SfReturn
SpecBundle == InitAnalyzers /\ [][NextBundle]_vars

(* The status bands of the store -> agent detail *)

\* period_comparison.py lines 566-574 with one comparison made strict
PC_get_status_strict(vs_store) ==
    IF FCmp(vs_store, FOfInt(5)) > 0 THEN "excellent"
    ELSE IF FCmp(vs_store, FZero) >= 0 THEN "good"
    ELSE IF FCmp(vs_store, FOfInt(-5)) >= 0 THEN "caution"
    ELSE "needs_improvement"

\* PeriodComparisonAnalyzer._get_store_tcrew_detail, lines 566-574: vs_store
\* is a double
PC_get_status(vs_store) ==
    IF FCmp(vs_store, FOfInt(5)) >= 0 THEN "excellent"           \* 🟢 우수
    ELSE IF FCmp(vs_store, FZero) >= 0 THEN "good"               \* 🟢 양호
    ELSE IF FCmp(vs_store, FOfInt(-5)) >= 0 THEN "caution"       \* 🟠 주의
    ELSE "needs_improvement"                                     \* 🔴 개선필요

\* period_comparison.py lines 537 and 557-564: vs_store of an agent whose NPS
\* goes from nps1 to nps2 in a store whose NPS goes from store_nps1 to
\* store_nps2 (hundredths): nps_change - store_nps_change[store_name]
PC_vs_store(nps1, nps2, store_nps1, store_nps2) ==
    FSub(FSub(FOfHundredths(nps2), FOfHundredths(nps1)),
         FSub(FOfHundredths(store_nps2), FOfHundredths(store_nps1)))

\* the differences of the simple filter analyzer, in hundredths of a point
DeltaChoices == (0 - MaxDelta) .. MaxDelta

\* NPS values of an agent and of a store in a period, in hundredths: 5.0 is
\* 1 of 20, 14.29 is 1 of 7, 14.37 is 23 of 160, 25.63 is 41 of 160, 30.63
\* is 49 of 160, 85.71 is 6 of 7
StatusNpsChoices == {0, 500, 1000, 1429, 1437, 2563, 3063, 8571, 10000}

\* simple_filter.py lines 208-211: a row of a store -> agent detail has the
\* difference vs매장_value to its store; the column is rounded to one place,
\* so the difference is the double of a whole tenth
SfChooseDelta ==
    /\ delta = None
    /\ \E d \in {x \in DeltaChoices : x % 10 = 0} :
           delta' = Some([analyzer |-> "simple_filter", tenths |-> Some(d \div 10),
                          vs_store |-> FOfTenths(d \div 10)])
    /\ UNCHANGED <<npsVars, parserVars, analyzerVars, status_out,
                   sfVars, bundleVars, appVars>>

\* period_comparison.py lines 555-564: a row of a store -> agent detail has
\* the difference vs_store to its store, a difference of differences of NPS
\* values and not always the double of a whole hundredth
PcChooseDelta ==
    /\ delta = None
    /\ \E nps1, nps2, store_nps1, store_nps2 \in StatusNpsChoices :
           delta' = Some([analyzer |-> "period_comparison", tenths |-> None,
                          vs_store |-> PC_vs_store(nps1, nps2, store_nps1, store_nps2)])
    /\ UNCHANGED <<npsVars, parserVars, analyzerVars, status_out,
                   sfVars, bundleVars, appVars>>

\* simple_filter.py line 224: grouped['vs매장_value'].apply(get_status)
SfGetStatus ==
    /\ delta # None /\ Val(delta).analyzer = "simple_filter"
    /\ status_out = None
    /\ status_out' = Some([analyzer |-> "simple_filter",
                           status |-> SFA_get_status(Val(Val(delta).tenths))])
    /\ UNCHANGED <<npsVars, parserVars, analyzerVars, delta,
                   sfVars, bundleVars, appVars>>

\* period_comparison.py lines 566-574: the status of a row whose difference
\* to its store is vs_store
PcGetStatus ==
    /\ delta # None /\ Val(delta).analyzer = "period_comparison"
    /\ status_out = None
    /\ status_out' = Some([analyzer |-> "period_comparison",
                           status |-> PC_get_status(Val(delta).vs_store)])
    /\ UNCHANGED <<npsVars, parserVars, analyzerVars, delta,
                   sfVars, bundleVars, appVars>>

NextStatus == SfChooseDelta \/ PcChooseDelta \/ SfGetStatus \/ PcGetStatus
SpecStatus == InitAnalyzers /\ [][NextStatus]_vars

(* C11 *)

\* the positions of a table's rows whose NPS is the lowest of the table
TiedAtMinimum(table) ==
    {k \in 1 .. Len(table) :
        \A j \in 1 .. Len(table) : table[k].nps_text.number <= table[j].nps_text.number}

\* the last simple filter analysis returned a dict (on a frame without rows
\* analyze raises and there is no table and no insight)
SfReturned == sf_out # None /\ ~Val(sf_out).returned.raised

\* the insights of one kind among those of the last analysis
InsightsOfKind(kind) ==
    SelectSeq(Val(sf_out).returned.value.insights, LAMBDA x : x.kind = kind)

\* the worst-row insight of a table names the first of the rows tied at the
\* minimum and counts the k - 1 others, or nothing when k = 1
WorstRowNamed(table, kind) ==
    Len(table) > 0 =>
        /\ Len(InsightsOfKind(kind)) = 1
        /\ InsightsOfKind(kind)[1].row = table[Min(TiedAtMinimum(table))]
        /\ InsightsOfKind(kind)[1].others =
               IF Cardinality(TiedAtMinimum(table)) = 1 THEN None
               ELSE Some(Cardinality(TiedAtMinimum(table)) - 1)

\* C11: in the insights of the simple filter analyzer, when k >= 2 rows of
\* the per-agent table (or of the per-store table) share the minimum NPS, the
\* worst-row insight names exactly one row, the first of the tied rows in the
\* table's order, with an others count of k - 1; when k = 1 it names that
\* row with no others count
C11_WorstRowAndOthers ==
    SfReturned =>
        /\ WorstRowNamed(Val(sf_out).returned.value.by_tcrew, "worst_tcrew")
        /\ WorstRowNamed(Val(sf_out).returned.value.by_store, "worst_store")

\* two agents tied at the minimum, neither of them the first row of the
\* per-agent table, and the insight counts the one other
C11_Witness ==
    /\ SfReturned
    /\ Cardinality(TiedAtMinimum(Val(sf_out).returned.value.by_tcrew)) = 2
    /\ Min(TiedAtMinimum(Val(sf_out).returned.value.by_tcrew)) > 1
    /\ InsightsOfKind("worst_tcrew")[1].others = Some(1)

(* C12 *)

\* the bands of the classification whose interval holds a difference, a
\* double: excellent from 5, good from 0 up to 5, caution from -5 up to 0,
\* needs-improvement under -5
BandsOf(d) ==
    {b \in {"excellent", "good", "caution", "needs_improvement"} :
        \/ b = "excellent" /\ FCmp(d, FOfInt(5)) >= 0
        \/ b = "good" /\ FCmp(d, FZero) >= 0 /\ FCmp(d, FOfInt(5)) < 0
        \/ b = "caution" /\ FCmp(d, FOfInt(-5)) >= 0 /\ FCmp(d, FZero) < 0
        \/ b = "needs_improvement" /\ FCmp(d, FOfInt(-5)) < 0}

\* the difference classified
Classified == Val(delta).vs_store

\* C12: the status classification of the store -> agent detail is total and
\* non-overlapping: every difference lies in exactly one band and gets that
\* band's status, 5 being excellent, 0 good and -5 caution, in the simple
\* filter analyzer and in the period comparison analyzer alike
C12_StatusBands ==
    status_out # None =>
        /\ BandsOf(Classified) = {Val(status_out).status}
        /\ Val(status_out).status = PC_get_status(Classified)
        /\ Val(delta).tenths # None =>
               Val(status_out).status = SFA_get_status(Val(Val(delta).tenths))
        /\ FCmp(Classified, FOfInt(5)) = 0 => Val(status_out).status = "excellent"
        /\ FCmp(Classified, FZero) = 0 => Val(status_out).status = "good"
        /\ FCmp(Classified, FOfInt(-5)) = 0 => Val(status_out).status = "caution"

\* the simple filter analyzer has classified the boundary difference -5
C12_Witness ==
    /\ delta # None /\ Val(delta).tenths = Some(-50)
    /\ status_out = Some([analyzer |-> "simple_filter", status |-> "caution"])

-----
(* C13 *)

\* the last analyzer call, its filters and what it returned
BundleOf(analyzer) == bundle # None /\ Val(bundle).analyzer = analyzer
BundleFilters == Val(bundle).filters
BundleReturned == Val(bundle).returned

\* the comparison periods of the filters carry the error of the parser
CarriesError(filters) ==
    filters.comparison_periods # None /\ Val(filters.comparison_periods).error # None

\* the dataset has responses of one agent in both fallback periods
HasFallbackData ==
    /\ \E k \in 1 .. Len(df) : df[k].date = December
    /\ \E k \in 1 .. Len(df) : df[k].date = January /\ df[k].team = df[1].team

\* C13: on a dataset that has the date column, when comparison_periods
\* carries the error marker the period comparison returns an empty result
\* (empty per-agent and per-store tables, empty detail mapping, zero counts)
\* whose insight reuses the parser's error message, and never the result of
\* the fallback periods 2025-09-01..2025-12-31 against 2026-01-01..2026-01-31;
\* the fallback periods and their labels are used only when
\* comparison_periods is absent
C13_ErrorNeverFallsBack ==
    (BundleOf("period_comparison") /\ date_column) =>
        /\ CarriesError(BundleFilters) =>
               /\ ~BundleReturned.raised
               /\ BundleReturned.value.by_tcrew = << >>
               /\ BundleReturned.value.by_store = << >>
               /\ BundleReturned.value.store_tcrew_detail = << >>
               /\ BundleReturned.value.summary.satisfied_tcrew = 0
               /\ BundleReturned.value.summary.satisfied_store = 0
               /\ BundleReturned.value.summary.base_period = NotAvailable
               /\ BundleReturned.value.summary.compare_period = NotAvailable
               /\ BundleReturned.value.insights =
                      <<Warning(Val(Val(BundleFilters.comparison_periods).error), None)>>
               /\ BundleReturned.value.insights[1].warning = SelectMonthMessage
        /\ (/\ ~BundleReturned.raised
            /\ BundleReturned.value.summary.base_period = RangeLabel(9, 12)
            /\ BundleReturned.value.summary.compare_period = MonthLabel(1)) =>
               BundleFilters.comparison_periods = None

\* the error marker met a dataset on which the fallback periods would have
\* compared an agent, and the result is the empty one with the parser's message
C13_Witness ==
    /\ BundleOf("period_comparison") /\ date_column
    /\ CarriesError(BundleFilters)
    /\ HasFallbackData
    /\ ~PC_return(TRUE, df, [BundleFilters EXCEPT !.comparison_periods = None]).raised
    /\ Len(PC_return(TRUE, df, [BundleFilters EXCEPT !.comparison_periods = None]).value.by_tcrew) > 0
    /\ BundleReturned.value.by_tcrew = << >>
    /\ BundleReturned.value.insights[1].warning = SelectMonthMessage

----------------------------------------------------------------------------
(* C14 *)

\* the components of a result: by-agent table, by-store table, store ->
\* agent detail, summary and insights
FiveComponents == {"by_tcrew", "by_store", "store_tcrew_detail", "summary", "insights"}

\* the error paths named: a period comparison without the date column, a
\* senior gap analysis with no row left after the scope filters
OnErrorPath ==
    \/ BundleOf("period_comparison") /\ ~date_column
    \/ BundleOf("senior_gap") /\ Len(SG_scope(df, BundleFilters)) = 0

\* C14 as stated: every return path of every analyzer, the error paths
\* included, returns without raising a result with the same five components;
\* on the error paths the tables and the mapping are empty and the insights
\* carry the explanatory message.
C14_Original ==
    bundle # None =>
        /\ ~BundleReturned.raised
        /\ DOMAIN BundleReturned.value = FiveComponents
        /\ OnErrorPath =>
               /\ BundleReturned.value.by_tcrew = << >>
               /\ BundleReturned.value.by_store = << >>
               /\ BundleReturned.value.store_tcrew_detail = << >>
               /\ Len(BundleReturned.value.insights) > 0

----------------------------------------------------------------------------
(* C15 *)

\* the last run of the script, and whether it came to line 404, where the
\* analysis starts
LastRun == Val(app_result).run
AppRanToAnalysis == app_result # None /\ LastRun.filters # None

\* the analyzer of an analysis type
AnalyzerOfType(analysis_type) ==
    CASE analysis_type = "simple_filter" -> "SimpleFilterAnalyzer"
      [] analysis_type = "senior_gap" -> "SeniorGapAnalyzer"
      [] analysis_type = "period_comparison" -> "PeriodComparisonAnalyzer"

\* C15 as stated: in the dispatch step, when analysis_type is store_analysis
\* or general no analyzer is invoked, a message is surfaced instead and the
\* result stays empty; an analyzer is invoked only when analysis_type is
\* simple_filter, senior_gap or period_comparison, and then it is the
\* analyzer of that type.
C15_Original ==
    AppRanToAnalysis =>
        IF Val(LastRun.filters).analysis_type \in {"store_analysis", "general"}
        THEN /\ LastRun.analyzer = None
             /\ LastRun.message # None
             /\ LastRun.result = None
        ELSE /\ Val(LastRun.filters).analysis_type \in
                    {"simple_filter", "senior_gap", "period_comparison"}
             /\ LastRun.analyzer = Some(AnalyzerOfType(Val(LastRun.filters).analysis_type))
             /\ LastRun.message = None

----------------------------------------------------------------------------
(* C16 *)

\* the label of a field's entry if the field is not absent, in a sequence
LabelIfPresent(present, label) == IF present THEN <<label>> ELSE << >>

\* the labels of the non-absent fields of a FilterSpec in the order month,
\* team, NPS target, senior threshold, minimum responses, store, type
LabelsOfPresentFields(f) ==
    LabelIfPresent(f.analysis_month # None, "bunseogwol")
    \o LabelIfPresent(f.team # None, "tim")
    \o LabelIfPresent(f.nps_target # None, "NPS mokpyo")
    \o LabelIfPresent(f.senior_threshold # None, "sinieo bijung")
    \o <<"choeso eungdapsu">>
    \o LabelIfPresent(f.store_name # None, "maejang")
    \o <<"bunseok yuhyeong">>

\* the labels of the entries of the last summary
SummaryLabels == [k \in DOMAIN Val(summary_out).summary |-> Val(summary_out).summary[k].label]

\* C16 as stated: get_filter_summary renders exactly the non-absent fields of
\* the FilterSpec in the order month, team, NPS target, senior threshold,
\* minimum responses, store, analysis type; an NPS target entry appears
\* whenever nps_target is present, the target 0 included.
C16_Original ==
    summary_out # None =>
        /\ SummaryLabels = LabelsOfPresentFields(Val(summary_out).filters)
        /\ Val(summary_out).filters.nps_target # None =>
               \E k \in DOMAIN Val(summary_out).summary :
                   /\ Val(summary_out).summary[k].label = "NPS mokpyo"
                   /\ Val(summary_out).summary[k].number =
                          Val(Val(summary_out).filters.nps_target)

----------------------------------------------------------------------------
(* C17 *)

\* the detail mapping of the last simple filter analysis
SfDetail == Val(sf_out).returned.value.store_tcrew_detail

\* the detail has the store of the response r and, under it, its agent
InDetail(detail, r) ==
    \E i \in 1 .. Len(detail) :
        /\ detail[i].store = r.store
        /\ \E j \in 1 .. Len(detail[i].rows) : detail[i].rows[j].agent = r.agent

\* C17: the store -> agent detail of SimpleFilterAnalyzer.analyze depends
\* only on the dataset: two runs on the same dataset with different
\* nps_target, nps_comparison or minimum response values return the same
\* detail, and the detail has every store and every agent of the dataset
\* even when the filtered per-agent and per-store tables are empty (on a
\* dataset without rows both runs raise, whatever the filters)
C17_DetailOfWholeDataset ==
    sf_out # None =>
        /\ Val(sf_out).returned.raised <=> Len(df) = 0
        /\ sf_before # None =>
               Val(sf_before).returned.raised = Val(sf_out).returned.raised
        /\ SfReturned =>
               /\ \A k \in 1 .. Len(df) : InDetail(SfDetail, df[k])
               /\ sf_before # None =>
                      Val(sf_before).returned.value.store_tcrew_detail = SfDetail

\* two runs under different filters, the second with both tables empty, on
\* a dataset of two stores: the details are equal and list both stores
C17_Witness ==
    /\ SfReturned /\ sf_before # None
    /\ Val(sf_before).filters # Val(sf_out).filters
    /\ Len(Val(sf_before).returned.value.by_tcrew) > 0
    /\ Val(sf_out).returned.value.by_tcrew = << >>
    /\ Val(sf_out).returned.value.by_store = << >>
    /\ Len(SfDetail) = 2
    /\ Val(sf_before).returned.value.store_tcrew_detail = SfDetail

----------------------------------------------------------------------------
(* C18 *)

\* the year rule: a month up to March lies in 2026, any other month in 2025
YearByRule(month) == IF month <= 3 THEN 2026 ELSE 2025

\* the two months of 'M1월 대비 M2월' in the question, both in 1..12
ComparedMonths == Val(MonthVsMonth(Text(question)))
ComparesTwoMonths ==
    /\ MonthVsMonth(Text(question)) # None
    /\ ValidMonth(ComparedMonths[1]) /\ ValidMonth(ComparedMonths[2])

\* C18 as stated: in 'M1월 대비 M2월' the year rule is applied to each of the
\* two months: a range whose month is <= 3 lies in 2026, any other in 2025;
\* for '1월 대비 2월' both ranges lie in 2026.
C18_Original ==
    (returned # None /\ ComparesTwoMonths) =>
        /\ ParsedOk
        /\ TwoMonths(ParsedPeriods, ComparedMonths[1], ComparedMonths[2])
        /\ Val(Val(ParsedPeriods).period1_start).y = YearByRule(ComparedMonths[1])
        /\ Val(Val(ParsedPeriods).period1_end).y = YearByRule(ComparedMonths[1])
        /\ Val(Val(ParsedPeriods).period2_start).y = YearByRule(ComparedMonths[2])
        /\ Val(Val(ParsedPeriods).period2_end).y = YearByRule(ComparedMonths[2])

----------------------------------------------------------------------------
(* C19 *)

\* the two days of 'D1일 대비 D2일' in the question, and the year and month of
\* the analysis month handed to the extraction
ComparedDays == Val(DayVsDay(Text(question)))
MonthHanded == Val(YearMonth(Text(Val(Val(extracted).analysis_month))))

\* the extraction was called on a question in which the day-range pattern
\* matches, with an analysis month 'YYYY년 MM월' of the calendar
DaysWithAMonth ==
    /\ extracted # None
    /\ DayVsDay(Text(question)) # None
    /\ Val(extracted).analysis_month # None
    /\ YearMonth(Text(Val(Val(extracted).analysis_month))) # None
    /\ ValidMonth(MonthHanded[2])

\* the same, in a question where neither pattern that compares months
\* matches: the patterns the extraction tries before the day-range pattern
DaysOfAMonth ==
    /\ DaysWithAMonth
    /\ MonthVsMonth(Text(question)) = None /\ RangeVsMonth(Text(question)) = None

\* the last day of a month of the calendar
LastDay(year, month) ==
    IF month = 2
    THEN IF (year % 4 = 0 /\ year % 100 # 0) \/ year % 400 = 0 THEN 29 ELSE 28
    ELSE IF month \in {4, 6, 9, 11} THEN 30 ELSE 31

\* the extraction returned the two ranges of the month handed to it, both
\* from day 1, ending on D1 and on D2, or absent when D1 or D2 exceeds the
\* last day of the month
DayRangesOrAbsent ==
    /\ ExtractedOk
    /\ IF ComparedDays[1] > LastDay(MonthHanded[1], MonthHanded[2])
          \/ ComparedDays[2] > LastDay(MonthHanded[1], MonthHanded[2])
       THEN ExtractedPeriods = None
       ELSE /\ ExtractedPeriods # None
            /\ Val(ExtractedPeriods).error = None
            /\ Val(ExtractedPeriods).period1_start =
                   Some(Date(MonthHanded[1], MonthHanded[2], 1))
            /\ Val(ExtractedPeriods).period1_end =
                   Some(Date(MonthHanded[1], MonthHanded[2], ComparedDays[1]))
            /\ Val(ExtractedPeriods).period2_start =
                   Some(Date(MonthHanded[1], MonthHanded[2], 1))
            /\ Val(ExtractedPeriods).period2_end =
                   Some(Date(MonthHanded[1], MonthHanded[2], ComparedDays[2]))

\* C19 as stated: when the day-range pattern matches with an analysis month
\* of the form 'YYYY년 MM월', _extract_comparison_periods returns two ranges
\* that both start on day 1 of that month, the first ending on day D1 and
\* the second on day D2; if D1 or D2 exceeds the last day of the month, leap
\* years included, it returns absent: no clamped range, no error sentinel
C19_Original == DaysWithAMonth => DayRangesOrAbsent

\* C19, amended: when the day-range pattern matches, neither pattern that
\* compares months matches in the question, and the analysis month has the
\* form 'YYYY년 MM월', _extract_comparison_periods returns two ranges that
\* both start on day 1 of that month, the first ending on day D1 and the
\* second on day D2; if D1 or D2 exceeds the last day of the month, leap
\* years included, it returns absent: no clamped range, no error sentinel
C19_DayRangesOfTheMonth == DaysOfAMonth => DayRangesOrAbsent

\* '2일 대비 29일' with February 2024, a leap year: the second range ends on
\* the 29th
C19_Witness ==
    /\ DaysOfAMonth
    /\ question = <<"2il", " daebi 29il">>
    /\ MonthHanded = <<2024, 2>>
    /\ ExtractedPeriods # None
    /\ Val(ExtractedPeriods).period2_end = Some(Date(2024, 2, 29))

----------------------------------------------------------------------------
(* C20 *)

\* the question of the last run, the two days it compares, and the month
\* selected in the panel, as <<year, month>>
QuestionRun == Text(Val(app_result).question)
DaysAsked == Val(DayVsDay(QuestionRun))
MonthSelected == YearMonth(Text(Val(app_result).month))

\* the last run came to the analysis block with filters that the dispatch
\* hands to an analyzer, on a question in which the day-range pattern
\* matches, a month of the calendar being selected in the panel
DayQuestionRun ==
    /\ AppRanToAnalysis
    /\ Dispatch(Val(LastRun.filters).analysis_type).analyzer # None
    /\ DayVsDay(QuestionRun) # None
    /\ MonthSelected # None
    /\ ValidMonth(Val(MonthSelected)[2])

\* the two days fit in the selected month
DaysFit ==
    /\ DaysAsked[1] <= LastDay(Val(MonthSelected)[1], Val(MonthSelected)[2])
    /\ DaysAsked[2] <= LastDay(Val(MonthSelected)[1], Val(MonthSelected)[2])

\* the comparison periods of the filters the run holds at the analysis
\* block, which the dispatch hands to the analyzer
PeriodsAnalyzed == Val(LastRun.filters).comparison_periods

\* C20 as stated: over parse(question), the month selected in the panel, the
\* second extraction of the comparison periods and the analyzer call, for a
\* question that compares two days: if the selected month is valid and both
\* days fit in it, the filters reaching the analyzer carry the two day
\* ranges in place of the error sentinel of the first parse; if a day
\* exceeds the length of the month, they have comparison_periods absent, not
\* the error sentinel.
C20_Original ==
    DayQuestionRun =>
        IF DaysFit
        THEN /\ PeriodsAnalyzed # None
             /\ Val(PeriodsAnalyzed).error = None
             /\ Val(PeriodsAnalyzed).period1_start =
                    Some(Date(Val(MonthSelected)[1], Val(MonthSelected)[2], 1))
             /\ Val(PeriodsAnalyzed).period1_end =
                    Some(Date(Val(MonthSelected)[1], Val(MonthSelected)[2], DaysAsked[1]))
             /\ Val(PeriodsAnalyzed).period2_start =
                    Some(Date(Val(MonthSelected)[1], Val(MonthSelected)[2], 1))
             /\ Val(PeriodsAnalyzed).period2_end =
                    Some(Date(Val(MonthSelected)[1], Val(MonthSelected)[2], DaysAsked[2]))
        ELSE PeriodsAnalyzed = None

----------------------------------------------------------------------------
(* Questions about the senior proportion *)

\* pieces of questions about seniors: 시니어, 비중, a number, 이상 / 넘는, the
\* keywords of the high and the low branch, 낮고 (a keyword of neither), and
\* an NPS target
SeniorVocabulary ==
    {"sinieo", "sinieo bijung", " bijung", " 30", "% isang", " neomneun",
     " maneun", " jeogeun", " nopgo", " natgo", " bijungi najeun", "NPS 90"}

TypeSeniorWord == TypeWord(SeniorVocabulary, MaxSeniorWords)

NextSenior == TypeSeniorWord \/ Parse
SpecSenior == InitParser /\ [][NextSenior]_vars

----------------------------------------------------------------------------
(* C21 *)

\* the keywords of the high branch (비중이 높은, 비중 높은, 많은, 높고, 높으면서)
\* and of the low branch (비중이 낮은, 비중 낮은, 적은, 낮으면서)
SeniorHighKeywords == {"bijungi nopeun", "bijung nopeun", "maneun", "nopgo", "nopeumyeonseo"}
SeniorLowKeywords == {"bijungi najeun", "bijung najeun", "jeogeun", "najeumyeonseo"}

\* '시니어 ... 비중 ... N ... 이상|넘는' with no digit but N's in between: the
\* digits of N at positions n of the question, for an occurrence of 시니어
SeniorProportionStated(t, n) ==
    /\ n[1] <= n[2]
    /\ \A k \in n[1] .. n[2] : IsDigit(t[k])
    /\ n[1] = 1 \/ ~IsDigit(t[n[1] - 1])
    /\ n[2] = Len(t) \/ ~IsDigit(t[n[2] + 1])
    /\ \E i \in Occ(t, "sinieo") : \E b \in Occ(t, "bijung") :
           /\ i + 3 <= b /\ b + 2 <= n[1]
           /\ \A k \in i .. n[1] - 1 : ~IsDigit(t[k])
    /\ \E e \in Occ(t, "isang") \cup Occ(t, "neomneun") :
           /\ e > n[2]
           /\ \A k \in n[2] + 1 .. e - 1 : ~IsDigit(t[k])

StatedProportions(t) ==
    {n \in (1 .. Len(t)) \X (1 .. Len(t)) : SeniorProportionStated(t, n)}

\* C21: in the filters parse returns, senior_threshold is present iff the
\* question contains 시니어; when present it is custom:N if
\* '시니어 비중 N% 이상' matches, else avg when a keyword of the high branch
\* occurs, else below_avg when a keyword of the low branch occurs, else avg
C21_SeniorThreshold ==
    returned # None =>
        /\ ParsedOk
        /\ (ParsedFilters.senior_threshold # None) <=> Has(LowerQuestion, "sinieo")
        /\ Has(LowerQuestion, "sinieo") =>
               IF StatedProportions(LowerQuestion) # {}
               THEN \E n \in StatedProportions(LowerQuestion) :
                        ParsedFilters.senior_threshold =
                            Some(SeniorTag("custom", Slice(LowerQuestion, n[1], n[2])))
               ELSE IF HasAny(LowerQuestion, SeniorHighKeywords)
                    THEN ParsedFilters.senior_threshold = Some(SeniorTag("avg", << >>))
               ELSE IF HasAny(LowerQuestion, SeniorLowKeywords)
                    THEN ParsedFilters.senior_threshold = Some(SeniorTag("below_avg", << >>))
               ELSE ParsedFilters.senior_threshold = Some(SeniorTag("avg", << >>))

\* '시니어 비중 30% 이상' was parsed: the threshold is custom:30
C21_Witness ==
    /\ ParsedOk
    /\ question = <<"sinieo bijung", " 30", "% isang">>
    /\ ParsedFilters.senior_threshold = Some(SeniorTag("custom", <<"3", "0">>))

----------------------------------------------------------------------------
(* The minimum response floor of the simple filter analyzer: datasets of    *)
(* one store with groups of up to MaxFloorRows responses                    *)

FloorRowChoices ==
    {r \in [team : {1}, dealer : {1}, store : {1}, agent : 1 .. 2, score : {0, 10}] :
        r.agent = 1 \/ r.score = 10}

AddFloorRow ==
    /\ Len(df) < MaxFloorRows
    /\ \E r \in FloorRowChoices : df' = Append(df, r)
    /\ sf_out' = None /\ sf_before' = None
    /\ UNCHANGED <<npsVars, parserVars, pc_out, sg_out, sg_before,
                   statusVars, bundleVars, appVars>>

\* filters with and without the key min_responses_period1 (the filter panel
\* writes it, parse does not) and with the generic min_responses of parse
\* (5 by default, 10 for '응답 10건'); no NPS target
FloorFilterChoices ==
    [min_responses_period1 : {None, Some(6)},
     min_responses : {None, Some(5), Some(10)},
     nps_target : {None}, nps_comparison : {"below"}]

\* SimpleFilterAnalyzer(df).analyze(filters)
SfFloorAnalyze ==
    /\ sf_out = None
    /\ \E f \in FloorFilterChoices :
           sf_out' = Some([filters |-> f, returned |-> SFA_return(df, f)])
    /\ UNCHANGED <<npsVars, parserVars, analyzerVars, sf_before,
                   statusVars, bundleVars, appVars>>

NextSfFloor == AddFloorRow \/ SfFloorAnalyze
SpecSfFloor == InitAnalyzers /\ [][NextSfFloor]_vars

----------------------------------------------------------------------------
(* C22 *)

\* the floor as stated: min_responses_period1 if present, otherwise the
\* generic min_responses, otherwise 5
StatedFloor(filters) ==
    IF filters.min_responses_period1 # None THEN Val(filters.min_responses_period1)
    ELSE IF filters.min_responses # None THEN Val(filters.min_responses)
    ELSE 5

\* the number of responses of an agent, and of a store, in the dataset
ResponsesOfAgent(store, agent) ==
    Cardinality({i \in DOMAIN df : df[i].store = store /\ df[i].agent = agent})
ResponsesOfStore(store) == Cardinality({i \in DOMAIN df : df[i].store = store})

\* the agents and the stores listed in the tables of the last analysis
ListedAgents ==
    {<<Val(sf_out).returned.value.by_tcrew[k].store, Val(sf_out).returned.value.by_tcrew[k].agent>> :
        k \in DOMAIN Val(sf_out).returned.value.by_tcrew}
ListedStores ==
    {Val(sf_out).returned.value.by_store[k].store : k \in DOMAIN Val(sf_out).returned.value.by_store}

\* C22 as stated: the simple filter analyzer keeps exactly the groups whose
\* response count is at least the floor, the floor being
\* min_responses_period1 if present, otherwise the generic min_responses,
\* otherwise 5; with min_responses = 10 and no min_responses_period1 a group
\* of 7 responses is in neither the per-agent nor the per-store table.
C22_Original ==
    (SfReturned /\ Val(sf_out).filters.nps_target = None) =>
        /\ ListedAgents =
               {<<df[i].store, df[i].agent>> : i \in
                   {j \in DOMAIN df : ResponsesOfAgent(df[j].store, df[j].agent)
                                          >= StatedFloor(Val(sf_out).filters)}}
        /\ ListedStores =
               {df[i].store : i \in
                   {j \in DOMAIN df : ResponsesOfStore(df[j].store)
                                          >= StatedFloor(Val(sf_out).filters)}}

----------------------------------------------------------------------------
(* C23 *)

\* the agents left by the senior proportion filter (step 2) that have a
\* senior response, and those left by the senior NPS filter (step 3)
SurvivorsWithSenior ==
    {k \in DOMAIN Val(sg_out).result.after_senior_filter :
        Val(sg_out).result.after_senior_filter[k].senior >= 1}
AfterStep3 ==
    {Val(sg_out).result.after_senior_nps_filter[k].agent :
        k \in DOMAIN Val(sg_out).result.after_senior_nps_filter}

\* the sum of the senior NPS of a set of rows of the step 2 table
RECURSIVE SeniorNpsSum(_)
SeniorNpsSum(S) ==
    IF S = {} THEN 0
    ELSE LET k == CHOOSE x \in S : TRUE
         IN  Val(sg_out).result.after_senior_filter[k].senior_nps + SeniorNpsSum(S \ {k})

\* C23 as stated: the cut-off of step 3 is the mean of the senior NPS over
\* exactly the agents that survived step 2 and have a senior response; an
\* agent survives step 3 iff it has a senior response and its senior NPS is
\* strictly below that mean.
C23_Original ==
    (sg_out # None /\ Val(sg_out).result.outcome = "ok") =>
        AfterStep3 =
            {Val(sg_out).result.after_senior_filter[k].agent : k \in
                {j \in SurvivorsWithSenior :
                    Val(sg_out).result.after_senior_filter[j].senior_nps
                        * Cardinality(SurvivorsWithSenior)
                    < SeniorNpsSum(SurvivorsWithSenior)}}

----------------------------------------------------------------------------
(* The trend of a period comparison: datasets of two agents, each in a      *)
(* store of its own, with responses in December 2025 and in January 2026,   *)
(* analyzed under each trend                                                *)

TrendRowChoices ==
    {r \in [agent : 1 .. 2, team : {"T1"}, store : {"S1", "S2"},
            date : {December, January}, senior : {FALSE}, score : {0, 8, 10}] :
        \/ r.agent = 1 /\ r.store = "S1" /\ r.score # 0
        \/ r.agent = 2 /\ r.store = "S2" /\ r.score # 8}

AddTrendRow ==
    /\ Len(df) < MaxTrendRows
    /\ \E r \in TrendRowChoices : df' = Append(df, r)
    /\ pc_out' = None
    /\ UNCHANGED <<npsVars, parserVars, sg_out, sg_before, restVars>>

\* the filters: each trend, no NPS target, a floor of one response per
\* period, the default periods
TrendFilterChoices ==
    [comparison_periods : {None},
     trend : {None, Some("decrease"), Some("increase")},
     nps_target : {None}, nps_comparison : {"below"},
     min_responses_period1 : {1}, min_responses_period2 : {1}]

\* PeriodComparisonAnalyzer(df).analyze(filters): the per-agent and the
\* per-store table of the dict returned
TrendAnalyze ==
    /\ pc_out = None
    /\ \E f \in TrendFilterChoices :
           pc_out' = Some([filters |-> f, result |-> PC_analyze(df, f),
                           by_store |-> PC_by_store(df, f)])
    /\ UNCHANGED <<npsVars, parserVars, df, sg_out, sg_before, restVars>>

NextTrend == AddTrendRow \/ TrendAnalyze
SpecTrend == InitAnalyzers /\ [][NextTrend]_vars

----------------------------------------------------------------------------
(* C24 *)

\* the per-agent and the per-store table of the last period comparison
TrendByTcrew == Val(pc_out).result.by_tcrew
TrendByStore == Val(pc_out).by_store

\* a table is in the order of the trend: ascending change under decrease,
\* descending change under increase, descending absolute change otherwise
InTrendOrder(table, trend) ==
    \A i, j \in DOMAIN table :
        i < j =>
            IF trend = Some("decrease") THEN table[i].change <= table[j].change
            ELSE IF trend = Some("increase") THEN table[i].change >= table[j].change
            ELSE Abs(table[i].change) >= Abs(table[j].change)

\* C24: the per-agent and per-store results of the period comparison are
\* ordered by the change (period-2 NPS minus period-1 NPS): ascending under
\* the trend decrease (the largest drop first), descending under increase,
\* descending absolute change when the trend is absent; each row's change is
\* its period-2 NPS minus its period-1 NPS
C24_OrderedByChange ==
    pc_out # None =>
        /\ InTrendOrder(TrendByTcrew, Val(pc_out).filters.trend)
        /\ InTrendOrder(TrendByStore, Val(pc_out).filters.trend)
        /\ \A k \in DOMAIN TrendByTcrew :
               TrendByTcrew[k].change = TrendByTcrew[k].compare_nps - TrendByTcrew[k].base_nps
        /\ \A k \in DOMAIN TrendByStore :
               TrendByStore[k].change = TrendByStore[k].compare_nps - TrendByStore[k].base_nps

\* under decrease, agent 2 fell from 100 to -100 and agent 1 from 100 to 0:
\* agent 2, with the larger drop, is first in the per-agent table and its
\* store first in the per-store table
C24_Witness ==
    /\ pc_out # None
    /\ Val(pc_out).filters.trend = Some("decrease")
    /\ Len(TrendByTcrew) = 2 /\ Len(TrendByStore) = 2
    /\ TrendByTcrew[1].agent = 2 /\ TrendByTcrew[1].change = -20000
    /\ TrendByTcrew[2].agent = 1 /\ TrendByTcrew[2].change = -10000
    /\ TrendByStore[1].store = "S2" /\ TrendByStore[2].store = "S1"

----------------------------------------------------------------------------
(* C25 *)

\* the responses of an agent, and of a store, on a date
ScoresOfAgent(agent, date) ==
    ScoreColumn(SelectSeq(df, LAMBDA r : r.agent = agent /\ r.date = date))
ScoresOfStore(store, date) ==
    ScoreColumn(SelectSeq(df, LAMBDA r : r.store = store /\ r.date = date))

\* the agents and the stores with responses in both periods, and their
\* change of NPS from December to January
JoinedAgents ==
    {a \in 1 .. 2 : ScoresOfAgent(a, December) # << >> /\ ScoresOfAgent(a, January) # << >>}
JoinedStores ==
    {x \in {"S1", "S2"} :
        ScoresOfStore(x, December) # << >> /\ ScoresOfStore(x, January) # << >>}
ChangeOfAgent(a) ==
    PC_calculate_nps(ScoresOfAgent(a, January)) - PC_calculate_nps(ScoresOfAgent(a, December))
ChangeOfStore(x) ==
    PC_calculate_nps(ScoresOfStore(x, January)) - PC_calculate_nps(ScoresOfStore(x, December))

\* a change passes the trend filter
KeptByTrend(change, trend) ==
    IF trend = Some("increase") THEN change > 0
    ELSE IF trend = Some("decrease") THEN change < 0
    ELSE TRUE

\* C25: with no NPS target and floors of one response, the trend increase
\* keeps exactly the joined rows with a change above 0, decrease exactly
\* those with a change below 0, and an absent trend keeps all of them; a row
\* without a change is listed only when the trend is absent; the per-agent
\* and the per-store table follow the same rule
C25_TrendFilter ==
    pc_out # None =>
        /\ {TrendByTcrew[k].agent : k \in DOMAIN TrendByTcrew} =
               {a \in JoinedAgents : KeptByTrend(ChangeOfAgent(a), Val(pc_out).filters.trend)}
        /\ {TrendByStore[k].store : k \in DOMAIN TrendByStore} =
               {x \in JoinedStores : KeptByTrend(ChangeOfStore(x), Val(pc_out).filters.trend)}
        /\ \A k \in DOMAIN TrendByTcrew :
               TrendByTcrew[k].change = 0 => Val(pc_out).filters.trend = None
        /\ \A k \in DOMAIN TrendByStore :
               TrendByStore[k].change = 0 => Val(pc_out).filters.trend = None

\* under increase, agent 1 has no change and agent 2 rose: only agent 2 and
\* its store are listed
C25_Witness ==
    /\ pc_out # None
    /\ Val(pc_out).filters.trend = Some("increase")
    /\ JoinedAgents = {1, 2}
    /\ ChangeOfAgent(1) = 0 /\ ChangeOfAgent(2) > 0
    /\ Len(TrendByTcrew) = 1 /\ TrendByTcrew[1].agent = 2
    /\ Len(TrendByStore) = 1 /\ TrendByStore[1].store = "S2"

----------------------------------------------------------------------------
(* The store detail of the senior gap analyzer: datasets of agents 1 and 2  *)
(* in store S1 and agent 3 in store S2                                      *)

DetailRowChoices ==
    {r \in [agent : 1 .. 3, team : {"T1"}, dealer : {"D1", "D2"}, store : {"S1", "S2"},
            date : {December}, senior : BOOLEAN, score : {0, 10}] :
        \/ r.agent = 1 /\ r.dealer = "D1" /\ r.store = "S1"
        \/ r.agent = 2 /\ r.dealer = "D1" /\ r.store = "S1" /\ r.senior
        \/ r.agent = 3 /\ r.dealer = "D2" /\ r.store = "S2" /\ r.senior /\ r.score = 10}

AddDetailRow ==
    /\ Len(df) < MaxDetailRows
    /\ \E r \in DetailRowChoices : df' = Append(df, r)
    /\ sg_out' = None /\ sg_before' = None
    /\ UNCHANGED <<npsVars, parserVars, pc_out, restVars>>

\* the filters: a senior proportion of the average or more, or of 50% or
\* more; the default NPS target; a floor of one response
DetailFilterChoices ==
    [analysis_month : {None}, team : {None}, dealer_name : {None, Some("D1")},
     store_name : {None},
     senior_threshold : {None, Some(SeniorTag("custom", <<"5", "0">>))},
     nps_target : {None}, nps_comparison : {"below"},
     min_responses : {1}]

\* SeniorGapAnalyzer(df).analyze(filters): the per-agent table and the detail
\* of the dict returned (the dict of the path without data, lines 141-151,
\* has no detail: None)
SgDetailAnalyze ==
    /\ sg_out = None
    /\ \E f \in DetailFilterChoices :
           sg_out' = Some([filters |-> f, result |-> SG_analyze(df, f),
                           store_tcrew_detail |-> SG_store_tcrew_detail(df, f)])
    /\ UNCHANGED <<npsVars, parserVars, df, pc_out, sg_before, restVars>>

NextSgDetail == AddDetailRow \/ SgDetailAnalyze
SpecSgDetail == InitAnalyzers /\ [][NextSgDetail]_vars

----------------------------------------------------------------------------
(* C26 *)

\* the detail of the last senior gap analysis and the agents of its
\* per-agent table
SgDetail == Val(sg_out).store_tcrew_detail
SgSurvivors ==
    {Val(sg_out).result.by_tcrew[k].agent : k \in DOMAIN Val(sg_out).result.by_tcrew}

\* the four bands of the status
StatusBands == {"excellent", "good", "caution", "needs_improvement"}

\* the rows of the detail are those of the surviving agents, and each
\* store's rows are in ascending order of NPS
DetailOfSurvivorsSorted ==
    /\ UNION {{SgDetail[s].rows[k].agent : k \in DOMAIN SgDetail[s].rows} :
                  s \in DOMAIN SgDetail} = SgSurvivors
    /\ \A s \in DOMAIN SgDetail : \A i, j \in DOMAIN SgDetail[s].rows :
           i < j => SgDetail[s].rows[i].nps_text <= SgDetail[s].rows[j].nps_text

\* C26 as stated: in the store detail of the senior gap analyzer, built only
\* from the rows of the agents that survived the per-agent pipeline, every
\* per-agent row carries a status of the four bands derived from the
\* agent's NPS minus the store's NPS, and each store's rows are sorted
\* ascending by NPS.
C26_Original ==
    sg_out # None =>
        /\ DetailOfSurvivorsSorted
        /\ \A s \in DOMAIN SgDetail : \A k \in DOMAIN SgDetail[s].rows :
               /\ "status" \in DOMAIN SgDetail[s].rows[k]
               /\ SgDetail[s].rows[k].status \in StatusBands

----------------------------------------------------------------------------
(* C27 *)

\* the keywords of a fall (하락, 낮아진, 떨어진) and of a rise (상승, 높아진,
\* 올라간)
FallKeywords == {"harak", "najajin", "tteoreojin"}
RiseKeywords == {"sangseung", "nopajin", "ollagan"}

\* C27: whenever parse classifies a question as period_comparison, the trend
\* of the same filters is present, increase or decrease; when the question
\* contains both a keyword of a rise and one of a fall, the trend is decrease
C27_TrendOfPeriodComparison ==
    returned # None =>
        /\ ParsedOk
        /\ ParsedFilters.analysis_type = "period_comparison" =>
               ParsedFilters.trend \in {Some("increase"), Some("decrease")}
        /\ (HasAny(Text(question), RiseKeywords) /\ HasAny(Text(question), FallKeywords)) =>
               ParsedFilters.trend = Some("decrease")

\* '기간 상승' followed by '하락' was parsed as a period comparison: the
\* trend is decrease
C27_Witness ==
    /\ ParsedOk
    /\ question = <<"gigan sangseung", "harak">>
    /\ ParsedFilters.analysis_type = "period_comparison"
    /\ ParsedFilters.trend = Some("decrease")

----------------------------------------------------------------------------
(* Questions that mix NPS, seniors and periods *)

\* NPS, 시니어 with and without a qualifier, months and days with and without
\* 대비, vs, 비교 and a trend
ClassVocabulary ==
    {"NPS", "sinieo", " bijung", "sinieo GAP", "12wol", " daebi 1wol", "2il",
     " daebi 5il", " 5il", "vs", " bigyo", " sangseung"}

TypeClassWord == TypeWord(ClassVocabulary, MaxClassWords)

NextClass == TypeClassWord \/ Parse
SpecClass == InitParser /\ [][NextClass]_vars

----------------------------------------------------------------------------
(* C28 *)

\* C28: whenever parse classifies a question as simple_filter, the same
\* filters have senior_threshold absent and comparison_periods absent
\* (neither ranges nor the error sentinel); whenever it classifies a
\* question as senior_gap, senior_threshold is present
C28_FieldsOfTheType ==
    returned # None =>
        /\ ParsedOk
        /\ ParsedFilters.analysis_type = "simple_filter" =>
               /\ ParsedFilters.senior_threshold = None
               /\ ParsedFilters.comparison_periods = None
        /\ ParsedFilters.analysis_type = "senior_gap" =>
               ParsedFilters.senior_threshold # None

\* 'NPS2일 5일' was parsed: a simple filter, two days without 대비, no
\* comparison periods and no senior threshold
C28_Witness ==
    /\ ParsedOk
    /\ question = <<"NPS", "2il", " 5il">>
    /\ ParsedFilters.analysis_type = "simple_filter"
    /\ ParsedFilters.comparison_periods = None
    /\ ParsedFilters.senior_threshold = None

----------------------------------------------------------------------------
(* Questions whose periods start at day or month 0 or run backwards *)

\* days from 0, ranges of months that start at 0 or at 12, and the months
\* they are compared with
RangeVocabulary ==
    {"0il", "2il", " daebi 5il", "0~", "9~", "12~", "9wol", "12wol", " daebi 1wol"}

TypeRangeWord == TypeWord(RangeVocabulary, MaxRangeWords)

NextRanges == TypeRangeWord \/ Parse \/ ExtractForMonth
SpecRanges == InitParser /\ [][NextRanges]_vars

----------------------------------------------------------------------------
(* C29 *)

\* a comparison_periods value with two well-formed closed ranges: the four
\* bounds are dates of the calendar and each range starts no later than it
\* ends
WellFormedRanges(periods) ==
    /\ ValidDate(Val(periods.period1_start)) /\ ValidDate(Val(periods.period1_end))
    /\ ValidDate(Val(periods.period2_start)) /\ ValidDate(Val(periods.period2_end))
    /\ DateLE(Val(periods.period1_start), Val(periods.period1_end))
    /\ DateLE(Val(periods.period2_start), Val(periods.period2_end))

\* a value _extract_comparison_periods returned that is neither None nor the
\* error sentinel has well-formed ranges
WellFormedIfRanges(value) ==
    (value # None /\ Val(value).error = None) => WellFormedRanges(Val(value))

\* C29 as stated: every comparison_periods value _extract_comparison_periods
\* returns, the error sentinel aside, consists of two well-formed closed
\* ranges of dates: the four bounds are dates of the calendar and in each
\* range start <= end; also for day questions with day 0 such as
\* '0일 대비 5일'.
C29_Original ==
    /\ ParsedOk => WellFormedIfRanges(ParsedPeriods)
    /\ ExtractedOk => WellFormedIfRanges(ExtractedPeriods)

----------------------------------------------------------------------------
(* The simple filter analyzer run on one dataset below a target, at or      *)
(* above it, and without a target                                           *)

\* the filters of a simple filter analysis with a floor and a target
SplitFilters(floor, nps_target, nps_comparison) ==
    [min_responses_period1 |-> Some(floor), nps_target |-> nps_target,
     nps_comparison |-> nps_comparison]

SplitFloors == {1, 2}
SplitTargets == {0, 50, 100}

\* SimpleFilterAnalyzer(df).analyze(filters) under the three filters
SfSplit ==
    /\ sf_out = None
    /\ \E floor \in SplitFloors, t \in SplitTargets :
           sf_out' = Some([floor |-> floor, target |-> t,
                           below |-> SFA_return(df, SplitFilters(floor, Some(t), "below")),
                           above |-> SFA_return(df, SplitFilters(floor, Some(t), "above")),
                           absent |-> SFA_return(df, SplitFilters(floor, None, "below"))])
    /\ UNCHANGED <<npsVars, parserVars, analyzerVars, sf_before,
                   statusVars, bundleVars, appVars>>

NextSfSplit == AddSfRow \/ SfSplit
SpecSfSplit == InitAnalyzers /\ [][NextSfSplit]_vars

----------------------------------------------------------------------------
(* C30 *)

\* the rows of a table
RowsOf(table) == {table[k] : k \in DOMAIN table}

\* two tables have no row in common and together hold exactly the rows of
\* a third
Partition(below, above, all) ==
    /\ RowsOf(below) \cap RowsOf(above) = {}
    /\ RowsOf(below) \cup RowsOf(above) = RowsOf(all)
    /\ Len(below) + Len(above) = Len(all)

\* C30: for every dataset, target and floor, the per-agent rows the simple
\* filter analyzer returns with nps_comparison below and those it returns
\* with above are disjoint, and their union is exactly the per-agent rows
\* returned when nps_target is absent; the same holds for the per-store
\* table (on a dataset without rows the three calls raise alike and return
\* no row)
C30_BelowAboveSplit ==
    sf_out # None =>
        /\ Val(sf_out).below.raised = Val(sf_out).absent.raised
        /\ Val(sf_out).above.raised = Val(sf_out).absent.raised
        /\ ~Val(sf_out).absent.raised =>
               /\ Partition(Val(sf_out).below.value.by_tcrew,
                            Val(sf_out).above.value.by_tcrew,
                            Val(sf_out).absent.value.by_tcrew)
               /\ Partition(Val(sf_out).below.value.by_store,
                            Val(sf_out).above.value.by_store,
                            Val(sf_out).absent.value.by_store)

\* a target of 0 on a dataset with an agent of NPS 0 and another below 0: a
\* row on each side, the agent at the target on the side of above
C30_Witness ==
    /\ sf_out # None /\ ~Val(sf_out).absent.raised
    /\ Val(sf_out).target = 0
    /\ Len(Val(sf_out).below.value.by_tcrew) = 1
    /\ Len(Val(sf_out).above.value.by_tcrew) = 1
    /\ SFA_nps_numeric(Val(sf_out).above.value.by_tcrew[1].nps_text) = 0
    /\ Len(Val(sf_out).absent.value.by_tcrew) = 2

====
